---- MODULE Spec2Model ----
(***************************************************************************)
(* State-machine model of the WhatsApp group-moderation bot:               *)
(*   - the verification state machine (verification.js) over the           *)
(*     pending_verifications / verified_users tables (db module),          *)
(*   - the periodic expiry sweep started by the connection handler,        *)
(*   - the messages.upsert handler's moderation section,                   *)
(*   - the moderation module: the heuristic spam detector with its repeat  *)
(*     cache, the stages of moderateMessage, the classification operations.*)
(* Time is counted in units of the sweep interval (60 s).                  *)
(***************************************************************************)
EXTENDS Integers, Sequences, FiniteSets, TLC

\* ---------------------------------------------------------------- bounds
MaxTime == 3
MaxIds == 3
MaxSweeps == 2
MaxJoins == 1
MaxMsgs == 2
MaxCalls == 3
MaxClock == 3
\* config.verificationTimeoutMinutes, in time units
TimeoutMinutes == 1
\* VERIFICATION_CHECK_INTERVAL, in time units
SweepInterval == 1

Phones == {"p1"}
Groups == {"g1", "g2"}
\* Handler runs in flight at once.
HandlerSlots == {1}
\* Frame extractions in flight at once.
ExtractSlots == {1, 2}

\* --------------------------------------------------------------- strings
\* A text is a sequence of one-character strings: letters (of the upper-case
\* ones A, B, I, M), digits, blank and punctuation.

toUpperChar(c) ==
    CASE c = "a" -> "A"
      [] c = "b" -> "B"
      [] c = "i" -> "I"
      [] c = "m" -> "M"
      [] OTHER -> c

toLowerChar(c) ==
    CASE c = "A" -> "a"
      [] c = "B" -> "b"
      [] c = "I" -> "i"
      [] c = "M" -> "m"
      [] OTHER -> c

toUpperCase(s) == [i \in 1..Len(s) |-> toUpperChar(s[i])]

isSpace(c) == c = " "

isAlnum(c) == c \in {"a", "b", "A", "B", "1", "2"}

RECURSIVE trimStart(_)
trimStart(s) ==
    IF s # <<>> /\ isSpace(Head(s)) THEN trimStart(Tail(s)) ELSE s

RECURSIVE trimEnd(_)
trimEnd(s) ==
    IF s # <<>> /\ isSpace(s[Len(s)]) THEN trimEnd(SubSeq(s, 1, Len(s) - 1)) ELSE s

trim(s) == trimEnd(trimStart(s))

\* /^[A-Z0-9]{3,7}$/i.test(messageText.trim())
looksLikeCaptchaWide(messageText) ==
    LET t == trim(messageText)
    IN  Len(t) >= 3 /\ Len(t) <= 8 /\ \A i \in 1..Len(t) : isAlnum(t[i])

looksLikeCaptcha(messageText) ==
    LET t == trim(messageText)
    IN  Len(t) >= 3 /\ Len(t) <= 7 /\ \A i \in 1..Len(t) : isAlnum(t[i])

\* Codes the challenge generator may return (any letter case).
GeneratedCodes == { <<"a", "B", "1">>, <<"b", "A", "2">> }

\* Inbound message texts.
Texts ==
    { <<"A", "B", "1">>,                          \* a code, upper case
      <<" ", "a", "b", "1", " ">>,                \* same code, lower case, padded
      <<"b", "A", "2">>,                          \* the other code, mixed case
      <<"A", "B", "1", "2">>,                     \* challenge-shaped, no code
      <<"a", "1">>,                               \* too short
      <<"a", "b", "a", "b", "1", "2", "1", "2">>, \* eight alphanumerics
      <<"a", "b", " ", "a", "b">>,                \* prose
      <<"A", "B", "1", "!">> }                    \* punctuation

\* ----------------------------------------------------------------- state
VARIABLES
    now,          \* datetime('now')
    timerDue,     \* the interval timer has fired and its callback has not run yet
    pending,      \* rows of pending_verifications
    nextId,       \* AUTOINCREMENT sequence of pending_verifications
    verified,     \* rows of verified_users
    sweeps,       \* in-flight processExpiredVerifications calls
    joins,        \* in-flight join handlers / startVerification calls
    answer,       \* the last checkVerificationAnswer call and its result
    kickAttempts, \* per pending row id: groupParticipantsUpdate 'remove' calls
    notices,      \* per pending row id: timeout notices sent
    accepted,     \* ids of the rows whose correct answer was accepted
    cleaned,      \* ids of the rows cleanupExpiredVerifications deleted
    handlers,     \* in-flight messages.upsert handler runs, one message each
    nextMsg,      \* number of the next inbound message
    ledger,       \* rows of moderation_logs, in insertion order
    clock,        \* Date.now(), in units of 30 s
    recentMessages, \* the repeat cache: one entry per sender:group key
    spamLog,      \* the observed checkSimpleSpam calls and their results
    classified,   \* the last direct call of a classification operation
    tmpdir,       \* the files of os.tmpdir()
    extractions,  \* in-flight extractVideoFrames / extractGifFrames calls
    nextInv,      \* number of the next frame extraction (its Date.now() stamp)
    restores,     \* the POST /api/restore-message/:id requests, in arrival order
    resent,       \* the restored messages sent to rooms
    admin,        \* the last handleAdminResponse call and its effects
    queue,        \* per handler run: the messages of its batch not yet reached
    failedMsgs,   \* numbers of the messages whose handling threw
    challenges,   \* per pending row id: how the delivery of its challenge ended
    sweepLog,     \* per sweep slot: the observed course of its last sweep
    lastEvent     \* the last inbound event seen by the event filters

verifyVars == << now, timerDue, pending, nextId, verified, sweeps, joins, answer,
                kickAttempts, notices, accepted, cleaned >>

handlerVars == << handlers, nextMsg, ledger >>

serviceVars == << tmpdir, extractions, nextInv, restores, resent, admin, queue, failedMsgs >>

observedVars == << challenges, sweepLog, lastEvent >>

moderationVars == << clock, recentMessages, spamLog, classified, serviceVars, observedVars >>

vars == << verifyVars, handlerVars, moderationVars >>

NoRow == [id |-> 0]
NoAnswer == [result |-> "none"]
NoEntry == [count |-> 0]
NoCall == [op |-> "none"]
NoAdminCall == [result |-> "none"]
NoEvent == [kind |-> "none"]
NoSweepLog ==
    [expired |-> <<>>, faults |-> {}, attempts |-> {}, returned |-> {}, left |-> {},
     finished |-> FALSE]
IdleExtraction ==
    [pc |-> "idle", kind |-> "none", inv |-> 0, written |-> 0, impossible |-> FALSE,
     result |-> "none", frames |-> {}]

IdleSweep == [pc |-> "idle", expired |-> <<>>, idx |-> 0, kicked |-> {}]
IdleJoin == [pc |-> "idle", phone |-> "", group_id |-> ""]
IdleHandler ==
    [pc |-> "idle", msg |-> 0, sender |-> "", group_id |-> "", role |-> "member",
     text |-> <<>>, hasImage |-> FALSE, caption |-> <<>>, isGroupAdmin |-> FALSE,
     verdict |-> "null", stages |-> <<>>, pipeline |-> 0, logged |-> 0, deletes |-> 0, deleteOk |-> TRUE, notifies |-> 0]

\* ------------------------------------------------------- db module (SQL)
RowsOf(table, phone, groupId) ==
    {r \in table : r.phone = phone /\ r.group_id = groupId}

RECURSIVE SortById(_)
SortById(rows) ==
    IF rows = {} THEN <<>>
    ELSE LET first == CHOOSE r \in rows : \A q \in rows : r.id <= q.id
         IN  <<first>> \o SortById(rows \ {first})

\* INSERT without REPLACE on a table lacking the UNIQUE(phone, group_id) rule
addPendingCaptchaNoReplace(table, id, phone, groupId, captchaCode, timeoutMinutes, t) ==
    IF captchaCode = <<>> THEN table
    ELSE table \cup
           {[id |-> id, phone |-> phone, group_id |-> groupId,
             captcha_code |-> toUpperCase(captchaCode),
             created_at |-> t, expires_at |-> t + timeoutMinutes]}

\* INSERT OR REPLACE INTO pending_verifications ... UNIQUE(phone, group_id)
addPendingCaptcha(table, id, phone, groupId, captchaCode, timeoutMinutes, t) ==
    IF captchaCode = <<>> THEN table
    ELSE (table \ RowsOf(table, phone, groupId)) \cup
           {[id |-> id, phone |-> phone, group_id |-> groupId,
             captcha_code |-> toUpperCase(captchaCode),
             created_at |-> t, expires_at |-> t + timeoutMinutes]}

\* SELECT ... WHERE phone = ? AND group_id = ? (no expiry filter)
getPendingVerificationAnyAge(table, phone, groupId, t) ==
    LET rows == RowsOf(table, phone, groupId)
    IN  IF rows = {} THEN NoRow ELSE SortById(rows)[1]

\* SELECT ... WHERE phone = ? AND group_id = ? AND expires_at > datetime('now')
getPendingVerification(table, phone, groupId, t) ==
    LET rows == {r \in RowsOf(table, phone, groupId) : r.expires_at > t}
    IN  IF rows = {} THEN NoRow ELSE SortById(rows)[1]

removePendingVerification(table, phone, groupId) ==
    table \ RowsOf(table, phone, groupId)

\* INSERT OR REPLACE INTO verified_users; the schema declares phone UNIQUE
markUserVerified(table, phone, groupId) ==
    {r \in table : r.phone # phone} \cup {[phone |-> phone, group_id |-> groupId]}

isUserVerified(table, phone, groupId) ==
    RowsOf(table, phone, groupId) # {}

\* SELECT ... WHERE expires_at < datetime('now')
getExpiredVerificationsStrict(table, t) ==
    SortById({r \in table : r.expires_at < t})

\* SELECT ... WHERE expires_at <= datetime('now')
getExpiredVerifications(table, t) ==
    SortById({r \in table : r.expires_at <= t})

\* DELETE ... WHERE expires_at <= datetime('now')
cleanupExpiredVerifications(table, t) ==
    {r \in table : ~(r.expires_at <= t)}


\* ------------------------------------------- moderation module: heuristics
\* SPAM_CONFIG
maxLinks == 3
\* maxCapsRatio 0.7, in tenths
maxCapsRatioTenths == 7
minCapsLength == 10
repeatThreshold == 3
\* repeatWindow 60000 ms, in clock units
repeatWindow == 2

toLowerCase(s) == [i \in 1..Len(s) |-> toLowerChar(s[i])]

isLetter(c) ==
    c \in {"a", "b", "d", "e", "g", "h", "i", "m", "n", "o", "p", "r", "s", "t", "u",
           "A", "B", "I", "M"}

isUpper(c) == c \in {"A", "B", "I", "M"}

\* s has p at position i, letter case ignored (the regex's i flag)
startsWithAt(s, i, p) ==
    /\ i + Len(p) - 1 <= Len(s)
    /\ \A k \in 1..Len(p) : toLowerChar(s[i + k - 1]) = p[k]

\* Length of the https?:\/\/ part matched at position i, 0 when there is none
schemeAt(s, i) ==
    IF startsWithAt(s, i, <<"h", "t", "t", "p", ":", "/", "/">>) THEN 7
    ELSE IF startsWithAt(s, i, <<"h", "t", "t", "p", "s", ":", "/", "/">>) THEN 8
    ELSE 0

\* First position from i on that holds white space, Len(s) + 1 when none does
RECURSIVE nextSpace(_, _)
nextSpace(s, i) ==
    IF i > Len(s) \/ isSpace(s[i]) THEN i ELSE nextSpace(s, i + 1)

\* (message.match(/https?:\/\/[^\s]+/gi) || []).length, scanning from i
RECURSIVE countLinks(_, _)
countLinks(s, i) ==
    IF i > Len(s) THEN 0
    ELSE LET n == schemeAt(s, i)
         IN  IF n > 0 /\ i + n <= Len(s) /\ ~isSpace(s[i + n])
             THEN 1 + countLinks(s, nextSpace(s, i + n))
             ELSE countLinks(s, i + 1)

linkCount(message) == countLinks(message, 1)

\* message.replace(/[^a-zA-Z]/g, '')
letters(message) == SelectSeq(message, isLetter)

\* message.length >= SPAM_CONFIG.minCapsLength
capsChecked(message) == Len(message) >= minCapsLength

\* letters.length > 0 and capsRatio > SPAM_CONFIG.maxCapsRatio
capsRatioExceeded(message) ==
    LET l == letters(message)
    IN  Len(l) > 0 /\ 10 * Len(SelectSeq(l, isUpper)) > maxCapsRatioTenths * Len(l)

\* A link and a blank, to build texts from.
Link == <<"h", "t", "t", "p", ":", "/", "/", "a">>
Blank == <<" ">>

Verdict(type, severity) == [type |-> type, severity |-> severity]
NoVerdict == Verdict("null", "none")

\* The checks of checkSimpleSpam that come before the repeat check: their
\* verdict, or "continue" when the repeat check is reached.
\* linkCount > maxLinks + 1
earlyChecksLinksOffByOne(message) ==
    IF Len(message) < 5 THEN NoVerdict
    ELSE IF linkCount(message) > maxLinks + 1 THEN Verdict("excessive_links", "medium")
    ELSE IF capsChecked(message) /\ capsRatioExceeded(message)
    THEN Verdict("excessive_caps", "low")
    ELSE Verdict("continue", "none")

earlyChecks(message) ==
    IF Len(message) < 5 THEN NoVerdict
    ELSE IF linkCount(message) > maxLinks THEN Verdict("excessive_links", "medium")
    ELSE IF capsChecked(message) /\ capsRatioExceeded(message)
    THEN Verdict("excessive_caps", "low")
    ELSE Verdict("continue", "none")

\* now - data.lastTime >= repeatWindow
cleanRecentMessagesAtWindow(cache, t) ==
    [k \in DOMAIN cache |->
        IF cache[k] # NoEntry /\ t - cache[k].lastTime >= repeatWindow
        THEN NoEntry ELSE cache[k]]

\* cleanRecentMessages(): entries last touched more than repeatWindow ago go
cleanRecentMessages(cache, t) ==
    [k \in DOMAIN cache |->
        IF cache[k] # NoEntry /\ t - cache[k].lastTime > repeatWindow
        THEN NoEntry ELSE cache[k]]

\* message.toLowerCase().trim()
messageHash(message) == trim(toLowerCase(message))

\* a different text carries the count on
repeatEntryKeepCount(entry, hash, t) ==
    IF entry # NoEntry
    THEN [message |-> hash, count |-> entry.count + 1, lastTime |-> t]
    ELSE [message |-> hash, count |-> 1, lastTime |-> t]

\* The entry of the key after the repeat check saw hash at time t.
repeatEntry(entry, hash, t) ==
    IF entry # NoEntry /\ entry.message = hash
    THEN [message |-> hash, count |-> entry.count + 1, lastTime |-> t]
    ELSE [message |-> hash, count |-> 1, lastTime |-> t]

\* data.count >= repeatThreshold + 1
repeatReachedLate(entry, hash) ==
    entry # NoEntry /\ entry.message = hash /\ entry.count + 1 >= repeatThreshold + 1

\* data.message === messageHash and, after data.count++, data.count >= repeatThreshold
repeatReached(entry, hash) ==
    entry # NoEntry /\ entry.message = hash /\ entry.count + 1 >= repeatThreshold

\* checkSimpleSpam(message, senderPhone, groupId) at time t: its result and the
\* repeat cache it leaves.
checkSimpleSpam(cache, message, senderPhone, groupId, t) ==
    LET early == earlyChecks(message)
        key == <<senderPhone, groupId>>
        cleaned1 == cleanRecentMessages(cache, t)
        hash == messageHash(message)
    IN  IF early.type # "continue"
        THEN [result |-> early, cache |-> cache]
        ELSE [result |-> IF repeatReached(cleaned1[key], hash)
                         THEN Verdict("repeated_message", "medium") ELSE NoVerdict,
              cache |-> [cleaned1 EXCEPT ![key] = repeatEntry(cleaned1[key], hash, t)]]

\* ---------------------------------------- moderation module: classification
\* config.openaiApiKey is set in the running bot
openaiApiKey == TRUE

\* What openai.chat.completions.create can settle with: it rejects; the
\* response lacks choices[0].message.content; the content is no JSON; the
\* content is the JSON null; the content is a JSON object with flagged and
\* confidence (in tenths, 0 when the field is missing).
ChatOutcomes ==
    { [kind |-> k, flagged |-> FALSE, confidence |-> 0] :
         k \in {"transport_error", "no_choices", "unparsable", "json_null"} }
    \cup { [kind |-> "json", flagged |-> f, confidence |-> c] :
              f \in BOOLEAN, c \in {0, 6, 7, 8} }

\* What openai.moderations.create can settle with: it rejects; the response
\* lacks results[0]; the result lacks categories / category_scores; a result
\* with flagged and the highest category score (in hundredths).
ModerationOutcomes ==
    { [kind |-> k, flagged |-> FALSE, score |-> 0] :
         k \in {"transport_error", "no_results", "no_scores"} }
    \cup { [kind |-> "result", flagged |-> f, score |-> s] :
              f \in BOOLEAN, s \in {75, 76} }

\* What extractVideoFrames / extractGifFrames can settle with: they rethrow an
\* error, or return no frame, or some frames.
ExtractOutcomes == {"error", "none", "frames"}

\* result.confidence >= threshold
chatResultAtLeast(o, thresholdTenths, type) ==
    CASE o.kind \in {"transport_error", "no_choices", "json_null"} -> "raise"
      [] o.kind = "unparsable" -> "null"
      [] OTHER -> IF o.flagged /\ o.confidence >= thresholdTenths THEN type ELSE "null"

\* The body of the try block after a chat completion: "raise" stands for an
\* exception thrown inside it.
chatResult(o, thresholdTenths, type) ==
    CASE o.kind \in {"transport_error", "no_choices", "json_null"} -> "raise"
      [] o.kind = "unparsable" -> "null"
      [] OTHER -> IF o.flagged /\ o.confidence > thresholdTenths THEN type ELSE "null"

\* score >= 0.75
toxicVerdictAtLeast(o) ==
    CASE o.kind \in {"transport_error", "no_results", "no_scores"} -> Verdict("raise", "none")
      [] o.flagged -> Verdict("toxic_content", "high")
      [] o.score >= 75 -> Verdict("toxic_content", "medium")
      [] OTHER -> NoVerdict

\* The body of checkToxicContent's try block: the result object it returns.
toxicVerdict(o) ==
    CASE o.kind \in {"transport_error", "no_results", "no_scores"} -> Verdict("raise", "none")
      [] o.flagged -> Verdict("toxic_content", "high")
      [] o.score > 75 -> Verdict("toxic_content", "medium")
      [] OTHER -> NoVerdict

\* The type of that result.
toxicResult(o) == toxicVerdict(o).type

\* no catch clause: the exception leaves the function
caughtRethrown(r) == r

\* catch (error) { console.error(...); return null; }
caught(r) == IF r = "raise" THEN "null" ELSE r

checkToxicContent(message, apiKey, o) ==
    IF Len(message) < 3 \/ ~apiKey THEN "null" ELSE caught(toxicResult(o))

checkSensitiveContent(message, apiKey, o) ==
    IF Len(message) < 10 \/ ~apiKey THEN "null"
    ELSE caught(chatResult(o, 7, "sensitive_topic"))

analyzeImage(imageBuffer, apiKey, o) ==
    IF ~imageBuffer \/ ~apiKey THEN "null"
    ELSE caught(chatResult(o, 6, "sensitive_image"))

\* analyzeVideo and analyzeGif: frames are extracted, then classified together.
analyzeFrames(buffer, apiKey, extracted, o, type) ==
    IF ~buffer \/ ~apiKey THEN "null"
    ELSE caught(CASE extracted = "error" -> "raise"
                  [] extracted = "none" -> "null"
                  [] OTHER -> chatResult(o, 6, type))

analyzeVideo(videoBuffer, apiKey, extracted, o) ==
    analyzeFrames(videoBuffer, apiKey, extracted, o, "sensitive_video")

analyzeGif(gifBuffer, apiKey, extracted, o) ==
    analyzeFrames(gifBuffer, apiKey, extracted, o, "sensitive_gif")

\* Texts handed to the text classifiers: 2, 5 and 12 characters.
ClassifyTexts ==
    { <<"a", "b">>, <<"a", "b", " ", "a", "b">>,
      <<"a", "b", " ", "a", "b", " ", "a", "b", " ", "a", "b", "a">> }

Called(op, input, apiKey, extracted, outcome, result) ==
    /\ classified' = [op |-> op, input |-> input, apiKey |-> apiKey,
                      extracted |-> extracted, outcome |-> outcome, result |-> result,
                      severity |-> IF result \in {"null", "raise"} THEN "none"
                                   ELSE IF op = "checkToxicContent"
                                   THEN toxicVerdict(outcome).severity ELSE "high"]
    /\ UNCHANGED << verifyVars, handlerVars, clock, recentMessages, spamLog, serviceVars, observedVars >>

\* One of the module's classification operations is called and settles.
ToxicCall(message, apiKey, o) ==
    Called("checkToxicContent", message, apiKey, "none", o,
           checkToxicContent(message, apiKey, o))

SensitiveCall(message, apiKey, o) ==
    Called("checkSensitiveContent", message, apiKey, "none", o,
           checkSensitiveContent(message, apiKey, o))

ImageCall(imageBuffer, apiKey, o) ==
    Called("analyzeImage", imageBuffer, apiKey, "none", o,
           analyzeImage(imageBuffer, apiKey, o))

VideoCall(videoBuffer, apiKey, extracted, o) ==
    Called("analyzeVideo", videoBuffer, apiKey, extracted, o,
           analyzeVideo(videoBuffer, apiKey, extracted, o))

GifCall(gifBuffer, apiKey, extracted, o) ==
    Called("analyzeGif", gifBuffer, apiKey, extracted, o,
           analyzeGif(gifBuffer, apiKey, extracted, o))

NextClassify ==
    \/ \E m \in ClassifyTexts, k \in BOOLEAN, o \in ModerationOutcomes : ToxicCall(m, k, o)
    \/ \E m \in ClassifyTexts, k \in BOOLEAN, o \in ChatOutcomes : SensitiveCall(m, k, o)
    \/ \E b \in BOOLEAN, k \in BOOLEAN, o \in ChatOutcomes : ImageCall(b, k, o)
    \/ \E b \in BOOLEAN, k \in BOOLEAN, e \in ExtractOutcomes, o \in ChatOutcomes :
          VideoCall(b, k, e, o)
    \/ \E b \in BOOLEAN, k \in BOOLEAN, e \in ExtractOutcomes, o \in ChatOutcomes :
          GifCall(b, k, e, o)


\* ------------------------------------------------------------------ init
Init ==
    /\ now = 0
    /\ timerDue = FALSE
    /\ pending = {}
    /\ nextId = 1
    /\ verified = {}
    /\ sweeps = [s \in 1..MaxSweeps |-> IdleSweep]
    /\ joins = [j \in 1..MaxJoins |-> IdleJoin]
    /\ answer = NoAnswer
    /\ kickAttempts = [i \in 1..MaxIds |-> 0]
    /\ notices = [i \in 1..MaxIds |-> 0]
    /\ accepted = {}
    /\ cleaned = {}
    /\ handlers = [h \in HandlerSlots |-> IdleHandler]
    /\ nextMsg = 1
    /\ ledger = <<>>
    /\ clock = 0
    /\ recentMessages = [k \in Phones \X Groups |-> NoEntry]
    /\ spamLog = <<>>
    /\ classified = NoCall
    /\ tmpdir = {}
    /\ extractions = [s \in ExtractSlots |-> IdleExtraction]
    /\ nextInv = 1
    /\ restores = <<>>
    /\ resent = <<>>
    /\ admin = NoAdminCall
    /\ queue = [h \in HandlerSlots |-> <<>>]
    /\ failedMsgs = {}
    /\ challenges = [i \in 1..MaxIds |-> "none"]
    /\ sweepLog = [s \in 1..MaxSweeps |-> NoSweepLog]
    /\ lastEvent = NoEvent

\* ------------------------------------------------------- verification.js
\* userAnswer === expectedCode without the toUpperCase() calls
answerMatchesCaseSensitive(messageText, captchaCode) ==
    trim(messageText) = captchaCode

\* messageText.trim().toUpperCase() === pending.captcha_code.toUpperCase()
answerMatches(messageText, captchaCode) ==
    toUpperCase(trim(messageText)) = toUpperCase(captchaCode)

\* The result of checkVerificationAnswer: "success", "wrong" or "null".
answerResult(row, messageText) ==
    IF row = NoRow \/ row.captcha_code = <<>> THEN "null"
    ELSE IF answerMatches(messageText, row.captcha_code) THEN "success"
    ELSE IF looksLikeCaptcha(messageText) THEN "wrong"
    ELSE "null"

\* checkVerificationAnswer(senderJid, messageText, groupId, groupName): it has
\* no suspension point, so the whole call is one step.
checkVerificationAnswer(phone, groupId, messageText, observed) ==
    LET row == getPendingVerification(pending, phone, groupId, now)
        res == answerResult(row, messageText)
    IN  /\ answer' = IF observed
                     THEN [phone |-> phone, group_id |-> groupId,
                           text |-> messageText, result |-> res]
                     ELSE NoAnswer
        /\ IF res = "success"
           THEN /\ pending' = removePendingVerification(pending, phone, groupId)
                /\ verified' = markUserVerified(verified, phone, groupId)
                /\ accepted' = accepted \cup {row.id}
           ELSE UNCHANGED << pending, verified, accepted >>
        /\ UNCHANGED << now, timerDue, nextId, sweeps, joins, kickAttempts, notices, cleaned >>

\* An inbound message reaches the handler's verification step.
Answer(P, G, observed) ==
    \E p \in P, g \in G, t \in Texts :
        checkVerificationAnswer(p, g, t, observed)
        /\ UNCHANGED << handlerVars, moderationVars >>

\* A join event (group-participants.update 'add', or a join stub message): the
\* handler awaits sock.groupMetadata(groupId), which reads and writes no state;
\* when it succeeds startVerification runs up to await captcha.generateCaptcha(),
\* unless the user is already verified. A failed lookup is caught and ends it.
StartJoin(j, phone, groupId, metaOk) ==
    /\ joins[j].pc = "idle"
    /\ \A i \in 1..(j - 1) : joins[i].pc # "idle"
    /\ nextId + Cardinality({i \in 1..MaxJoins : joins[i].pc # "idle"}) <= MaxIds
    /\ joins' = IF metaOk /\ ~isUserVerified(verified, phone, groupId)
                THEN [joins EXCEPT ![j] =
                        [pc |-> "captcha", phone |-> phone, group_id |-> groupId]]
                ELSE joins
    /\ answer' = NoAnswer
    /\ UNCHANGED << now, timerDue, pending, nextId, verified, sweeps, kickAttempts, notices, accepted, cleaned >>

\* A join event of a monitored room for a participant other than the bot.
JoinEvent(j, phone, groupId, metaOk) ==
    /\ StartJoin(j, phone, groupId, metaOk)
    /\ UNCHANGED << handlerVars, moderationVars >>

\* the row stored only when the challenge was delivered
afterChallengeDropOnFailure(table, stored, sendOk) == IF sendOk THEN stored ELSE table

\* db.addPendingCaptcha runs before the send is awaited, and the catch block
\* of the send only logs: the stored row stays.
afterChallenge(table, stored, sendOk) == stored

\* generateCaptcha settles with a code: db.addPendingCaptcha, then the challenge
\* is sent with await sock.sendMessage, whose failure is caught.
JoinCaptcha(j, code, sendOk, observed) ==
    /\ joins[j].pc = "captcha"
    /\ pending' = afterChallenge(pending,
                                 addPendingCaptcha(pending, nextId, joins[j].phone,
                                                   joins[j].group_id, code, TimeoutMinutes, now),
                                 sendOk)
    /\ nextId' = nextId + 1
    /\ joins' = [joins EXCEPT ![j] = IdleJoin]
    /\ challenges' = IF observed
                     THEN [challenges EXCEPT ![nextId] = IF sendOk THEN "sent" ELSE "failed"]
                     ELSE challenges
    /\ answer' = NoAnswer
    /\ UNCHANGED << now, timerDue, verified, sweeps, kickAttempts, notices, accepted, cleaned,
                    handlerVars, clock, recentMessages, spamLog, classified,
                    serviceVars, sweepLog, lastEvent >>

Join(P, G, C, observed) ==
    \E j \in 1..MaxJoins :
        \/ \E p \in P, g \in G, ok \in BOOLEAN : JoinEvent(j, p, g, ok)
        \/ \E c \in C, ok \in BOOLEAN : JoinCaptcha(j, c, ok, observed)

IdsOf(rows) == {r.id : r \in rows}

SnapshotIds(s) == {sweeps[s].expired[i].id : i \in 1..Len(sweeps[s].expired)}

\* the removal placed in the same try block as the timeout notice
removalAttemptedIfNoticeSent(metaOk, noticeOk) == noticeOk

\* The metadata lookup and the timeout notice each have a try block of their
\* own, so the removal call is reached whatever they did.
removalAttempted(metaOk, noticeOk) == TRUE

\* The interval timer's callback runs: processExpiredVerifications reads the
\* expired rows and suspends in the first loop iteration, or, when nothing has
\* expired, runs to its end (the cleanup) without suspending.
SweepStart(s, observed) ==
    /\ sweeps[s].pc = "idle"
    /\ \A i \in 1..(s - 1) : sweeps[i].pc # "idle"
    /\ timerDue
    /\ timerDue' = FALSE
    /\ LET expired == getExpiredVerifications(pending, now)
       IN  IF expired = <<>>
           THEN /\ pending' = cleanupExpiredVerifications(pending, now)
                /\ cleaned' = cleaned \cup IdsOf(pending \ pending')
                /\ UNCHANGED << sweeps, sweepLog >>
           ELSE /\ sweeps' = [sweeps EXCEPT ![s] =
                                [pc |-> "loop", expired |-> expired, idx |-> 1, kicked |-> {}]]
                /\ sweepLog' = IF observed
                               THEN [sweepLog EXCEPT ![s] = [NoSweepLog EXCEPT !.expired = expired]]
                               ELSE sweepLog
                /\ UNCHANGED << pending, cleaned >>
    /\ answer' = NoAnswer
    /\ UNCHANGED << now, nextId, verified, joins, kickAttempts, notices, accepted,
                    handlerVars, clock, recentMessages, spamLog, classified,
                    serviceVars, challenges, lastEvent >>

\* One loop iteration of processExpiredVerifications settles: the awaits on
\* sock.groupMetadata, sock.sendMessage (timeout notice) and
\* sock.groupParticipantsUpdate (removal), each caught on failure; between them
\* the function reads and writes no shared state. The loop then suspends in
\* the next iteration, or ends with db.cleanupExpiredVerifications().
SweepRecord(s, metaOk, noticeOk, kickOk, observed) ==
    /\ sweeps[s].pc = "loop"
    /\ LET v == sweeps[s].expired[sweeps[s].idx]
           attempted == removalAttempted(metaOk, noticeOk)
           kicked == IF attempted /\ kickOk
                     THEN sweeps[s].kicked \cup {<<v.phone, v.group_id>>}
                     ELSE sweeps[s].kicked
           last == sweeps[s].idx = Len(sweeps[s].expired)
           faults == {<<v.id, c>> : c \in {c \in {"meta", "notice", "remove"} :
                                              \/ c = "meta" /\ ~metaOk
                                              \/ c = "notice" /\ ~noticeOk
                                              \/ c = "remove" /\ ~kickOk}}
       IN  /\ kickAttempts' = [kickAttempts EXCEPT ![v.id] = IF attempted THEN @ + 1 ELSE @]
           /\ notices' = [notices EXCEPT ![v.id] = @ + 1]
           /\ IF ~last
              THEN /\ sweeps' = [sweeps EXCEPT ![s] =
                                   [@ EXCEPT !.idx = @ + 1, !.kicked = kicked]]
                   /\ UNCHANGED << pending, cleaned >>
              ELSE /\ sweeps' = [sweeps EXCEPT ![s] = IdleSweep]
                   /\ pending' = cleanupExpiredVerifications(pending, now)
                   /\ cleaned' = cleaned \cup IdsOf(pending \ pending')
           /\ sweepLog' =
                 IF observed
                 THEN [sweepLog EXCEPT ![s] =
                         [@ EXCEPT !.faults = @ \cup faults,
                                   !.attempts = IF attempted THEN @ \cup {v.id} ELSE @,
                                   !.returned = IF last THEN kicked ELSE @,
                                   !.left = IF last
                                            THEN IdsOf(pending') \cap SnapshotIds(s)
                                            ELSE @,
                                   !.finished = last]]
                 ELSE sweepLog
    /\ answer' = NoAnswer
    /\ UNCHANGED << now, timerDue, nextId, verified, joins, accepted,
                    handlerVars, clock, recentMessages, spamLog, classified,
                    serviceVars, challenges, lastEvent >>

Sweep(S, observed) ==
    \E s \in S :
        \/ SweepStart(s, observed)
        \/ \E m, n, k \in BOOLEAN : SweepRecord(s, m, n, k, observed)

\* One sweep interval passes: the clock advances and the interval timer fires.
Tick ==
    /\ now < MaxTime
    /\ now' = now + SweepInterval
    /\ timerDue' = TRUE
    /\ answer' = NoAnswer
    /\ UNCHANGED << pending, nextId, verified, sweeps, joins, kickAttempts, notices, accepted, cleaned, handlerVars, moderationVars >>

NextOf(P, G, C, S, observed) ==
    Answer(P, G, observed) \/ Join(P, G, C, FALSE) \/ Sweep(S, FALSE) \/ Tick

\* Joins, answers and overlapping sweeps.
Next == NextOf(Phones, Groups, {<<"a", "B", "1">>}, 1..MaxSweeps, FALSE)

Spec == Init /\ [][Next]_vars

\* One room, one sweep at a time, both codes; each answer call is observed.
NextAnswer == NextOf(Phones, {"g1"}, GeneratedCodes, {1}, TRUE)

SpecAnswer == Init /\ [][NextAnswer]_vars

\* Joins of two rooms, one in flight at a time, and one sweep at a time, the
\* transport calls of the joins and of the sweep observed.
NextSweep ==
    \/ Join(Phones, Groups, {<<"a", "B", "1">>}, TRUE) /\ \A j \in 2..MaxJoins : joins'[j] = IdleJoin
    \/ Sweep({1}, TRUE)
    \/ Tick

SpecSweep == Init /\ [][NextSweep]_vars

\* ------------------------------------------- messages.upsert handler
Roles == {"member", "admin", "superadmin"}

\* The content of an inbound message: plain text (message.conversation or
\* extendedTextMessage.text), a text quoting an image, an image with its caption.
MessageKinds == {"conversation", "quotedImage", "imageMessage"}

\* message.message.conversation || message.message.extendedTextMessage?.text || ''
messageText(kind, body) == IF kind = "imageMessage" THEN <<>> ELSE body

\* !!(message.message.imageMessage || ...quotedMessage?.imageMessage)
hasImage(kind) == kind \in {"quotedImage", "imageMessage"}

\* A text of 23 characters that no heuristic flags.
LongText ==
    <<"a", "b", " ", "a", "b", " ", "a", "b", " ", "a", "b", " ",
      "a", "b", " ", "a", "b", " ", "a", "b", " ", "a", "b">>

FourLinks == Link \o Blank \o Link \o Blank \o Link \o Blank \o Link

\* The messages that go through the whole handler: a challenge code, a text
\* naming a sensitive topic, a long text, a text with four links quoting an
\* image, an image whose caption has four links.
HandlerMessages ==
    { [kind |-> "conversation", body |-> <<"A", "B", "1">>],
      [kind |-> "conversation", body |-> <<"a", " ", "g", "o", "d">>],
      [kind |-> "conversation", body |-> LongText],
      [kind |-> "quotedImage", body |-> FourLinks],
      [kind |-> "imageMessage", body |-> FourLinks] }

\* Outcomes of the image path: downloadMediaMessage throws, analyzeImage
\* throws, analyzeImage returns null or a sensitive_image result.
ImageOutcomes == {"download_error", "error", "null", "sensitive_image"}

\* Outcomes of the two external text classification calls.
ToxicOutcomes ==
    { [kind |-> "transport_error", flagged |-> FALSE, score |-> 0],
      [kind |-> "result", flagged |-> TRUE, score |-> 76],
      [kind |-> "result", flagged |-> FALSE, score |-> 75] }

TopicOutcomes ==
    { [kind |-> "transport_error", flagged |-> FALSE, confidence |-> 0],
      [kind |-> "json", flagged |-> TRUE, confidence |-> 8],
      [kind |-> "json", flagged |-> FALSE, confidence |-> 0] }

\* The source holds two copies of the moderation module: moderateMessage of
\* src/moderation.js runs checkSensitiveKeywords after the spam check, the
\* other copy does not.
KeywordStages == BOOLEAN

\* SENSITIVE_TOPICS, the entries that the model's alphabet can spell
SENSITIVE_TOPICS == { <<"g", "o", "d">> }

\* lowerMessage.includes(topic)
includes(s, sub) == \E i \in 1..Len(s) : startsWithAt(s, i, sub)

checkSensitiveKeywords(message) ==
    IF Len(message) < 3 THEN "null"
    ELSE IF \E topic \in SENSITIVE_TOPICS : includes(message, topic) THEN "sensitive_topic"
    ELSE "null"

\* a spam verdict does not end moderateMessage
nextStageSpamContinues(stage, result, message, keywords) ==
    IF result # "null" /\ stage # "spam" THEN "return"
    ELSE CASE stage = "spam" -> IF keywords THEN "keywords" ELSE "toxic"
           [] stage = "keywords" -> "toxic"
           [] stage = "toxic" -> IF Len(message) > 20 THEN "topic" ELSE "return"
           [] OTHER -> "return"

\* moderateMessage: what follows a stage that returned result ("return": the
\* function returns the last result).
nextStage(stage, result, message, keywords) ==
    IF result # "null" THEN "return"
    ELSE CASE stage = "spam" -> IF keywords THEN "keywords" ELSE "toxic"
           [] stage = "keywords" -> "toxic"
           [] stage = "toxic" -> IF Len(message) > 20 THEN "topic" ELSE "return"
           [] OTHER -> "return"

\* the text is checked whatever the image result
textCheckAlways(moderationResult, text) == text # <<>>

\* if (!moderationResult && messageText)
textCheckNeeded(moderationResult, text) == moderationResult = "null" /\ text # <<>>

\* participant.admin === 'admin' || participant.admin === 'superadmin', inside
\* the try block around sock.groupMetadata
isGroupAdmin(metaOk, role) == metaOk /\ role \in {"admin", "superadmin"}

\* the message text logged whatever the verdict
logMessageBodyAlwaysText(verdict) == "text"

\* moderationResult.type === 'sensitive_image' ? `[IMAGE] ${description}` : messageText
logMessageBody(verdict) == IF verdict = "sensitive_image" THEN "description" ELSE "text"

\* db.logModeration(...): one moderation_logs row for the message
logModeration(log, h, verdict) ==
    Append(log, [id |-> Len(log) + 1, msg |-> h.msg, group_id |-> h.group_id,
                 user_phone |-> h.sender, violation_type |-> verdict,
                 message_body |-> logMessageBody(verdict),
                 action_taken |-> "deleted", admin_response |-> "null", restored |-> FALSE])

\* A failed deletion ends the violation handling
afterDeleteAbortOnFailure(ok) == IF ok THEN "notify" ELSE "answer"

\* The try/catch around the delete call: the notification follows either way.
afterDelete(ok) == "notify"

Stage(stage, result) == [stage |-> stage, result |-> result]

\* The handler's last section: checkVerificationAnswer runs without suspending;
\* a non-null result is sent to the room (await sock.sendMessage).
ToAnswer(i, h) ==
    LET row == getPendingVerification(pending, h.sender, h.group_id, now)
    IN  /\ checkVerificationAnswer(h.sender, h.group_id, h.text, FALSE)
        /\ handlers' = [handlers EXCEPT ![i] =
              [h EXCEPT !.pc = IF answerResult(row, h.text) = "null" THEN "done" ELSE "reply"]]
        /\ UNCHANGED nextMsg

\* A verdict was produced: db.logModeration, then the delete call is awaited.
ToViolation(i, h, verdict) ==
    /\ ledger' = logModeration(ledger, h, verdict)
    /\ handlers' = [handlers EXCEPT ![i] =
          [h EXCEPT !.pc = "delete", !.verdict = verdict, !.logged = @ + 1]]
    /\ UNCHANGED << verifyVars, nextMsg >>

\* if (moderationResult) { ... } and what follows it.
Moderated(i, h, moderationResult) ==
    IF moderationResult # "null" THEN ToViolation(i, h, moderationResult)
    ELSE ToAnswer(i, h) /\ UNCHANGED ledger

\* moderateMessage(messageText, senderPhone, remoteJid) is called: it runs
\* checkSimpleSpam, in one copy of the module checkSensitiveKeywords, and
\* checkToxicContent up to its external call; when a stage ends the function
\* first, the handler goes on with the result.
ToText(i, h, keywords) ==
    LET spam == checkSimpleSpam(recentMessages, h.text, h.sender, h.group_id, clock)
        s1 == Append(h.stages, Stage("spam", spam.result.type))
        n1 == nextStage("spam", spam.result.type, h.text, keywords)
        kres == checkSensitiveKeywords(h.text)
        s2 == IF n1 = "keywords" THEN Append(s1, Stage("keywords", kres)) ELSE s1
        n2 == IF n1 = "keywords" THEN nextStage("keywords", kres, h.text, keywords) ELSE n1
        called == Len(h.text) >= 3 /\ openaiApiKey
        s3 == IF n2 = "toxic" THEN Append(s2, Stage("toxic", "null")) ELSE s2
        g == [h EXCEPT !.pipeline = @ + 1]
    IN  /\ recentMessages' = spam.cache
        /\ UNCHANGED << clock, spamLog, classified, serviceVars, observedVars >>
        /\ IF n2 = "toxic" /\ called
           THEN /\ handlers' = [handlers EXCEPT ![i] = [g EXCEPT !.pc = "toxic", !.stages = s2]]
                /\ UNCHANGED << verifyVars, nextMsg, ledger >>
           ELSE Moderated(i, [g EXCEPT !.stages = s3], s3[Len(s3)].result)

\* The loop body starts on a message of a monitored group, not from the bot,
\* with text or an image: it runs up to await sock.groupMetadata(remoteJid)
\* (the admin check).
StartMessage(i, sender, groupId, role, kind, body) ==
    /\ handlers[i].pc \in {"idle", "done"}
    /\ nextMsg <= MaxMsgs
    /\ messageText(kind, body) # <<>> \/ hasImage(kind)
    /\ handlers' = [handlers EXCEPT ![i] =
          [IdleHandler EXCEPT !.pc = "meta", !.msg = nextMsg, !.sender = sender,
                              !.group_id = groupId, !.role = role,
                              !.text = messageText(kind, body),
                              !.hasImage = hasImage(kind),
                              !.caption = IF kind = "imageMessage" THEN body ELSE <<>>]]
    /\ nextMsg' = nextMsg + 1

\* A messages.upsert event with one message.
MessageEvent(i, sender, groupId, role, kind, body) ==
    /\ StartMessage(i, sender, groupId, role, kind, body)
    /\ UNCHANGED << verifyVars, ledger, moderationVars >>

\* sock.groupMetadata settles. An admin skips moderation; otherwise the image
\* is downloaded and analysed first, or else the text is moderated.
AdminLookup(i, metaOk, keywords) ==
    /\ handlers[i].pc = "meta"
    /\ LET h == [handlers[i] EXCEPT !.isGroupAdmin = isGroupAdmin(metaOk, handlers[i].role)]
       IN  IF h.isGroupAdmin
           THEN ToAnswer(i, h) /\ UNCHANGED << ledger, moderationVars >>
           ELSE IF h.hasImage
           THEN /\ handlers' = [handlers EXCEPT ![i] = [h EXCEPT !.pc = "image"]]
                /\ UNCHANGED << verifyVars, nextMsg, ledger, moderationVars >>
           ELSE IF textCheckNeeded("null", h.text) THEN ToText(i, h, keywords)
           ELSE ToAnswer(i, h) /\ UNCHANGED << ledger, moderationVars >>

\* downloadMediaMessage and moderation.analyzeImage settle (both inside one
\* try block); then the text is moderated, unless the image gave a result.
ImageAnalysed(i, outcome, keywords) ==
    /\ handlers[i].pc = "image"
    /\ LET moderationResult == IF outcome = "sensitive_image" THEN outcome ELSE "null"
           h == [handlers[i] EXCEPT
                   !.pipeline = IF outcome = "download_error" THEN @ ELSE @ + 1,
                   !.stages = Append(@, Stage("image", moderationResult))]
       IN  IF textCheckNeeded(moderationResult, h.text) THEN ToText(i, h, keywords)
           ELSE Moderated(i, h, moderationResult) /\ UNCHANGED moderationVars

\* openai.moderations.create settles inside checkToxicContent; moderateMessage
\* returns its result, or calls checkSensitiveContent for a longer text.
ToxicSettled(i, o) ==
    /\ handlers[i].pc = "toxic"
    /\ LET r == checkToxicContent(handlers[i].text, openaiApiKey, o)
           h == [handlers[i] EXCEPT !.stages = Append(@, Stage("toxic", r))]
       IN  IF nextStage("toxic", r, h.text, FALSE) = "topic"
           THEN /\ handlers' = [handlers EXCEPT ![i] = [h EXCEPT !.pc = "topic"]]
                /\ UNCHANGED << verifyVars, nextMsg, ledger >>
           ELSE Moderated(i, h, r)
    /\ UNCHANGED moderationVars

\* openai.chat.completions.create settles inside checkSensitiveContent;
\* moderateMessage returns.
TopicSettled(i, o) ==
    /\ handlers[i].pc = "topic"
    /\ LET r == checkSensitiveContent(handlers[i].text, openaiApiKey, o)
       IN  Moderated(i, [handlers[i] EXCEPT !.stages = Append(@, Stage("topic", r))], r)
    /\ UNCHANGED moderationVars

\* sock.sendMessage(remoteJid, {delete: message.key}) settles; the private
\* notification is sent next.
DeleteSettled(i, ok) ==
    /\ handlers[i].pc = "delete"
    /\ LET h == [handlers[i] EXCEPT !.deletes = @ + 1, !.deleteOk = ok]
       IN  IF afterDelete(ok) = "notify"
           THEN /\ handlers' = [handlers EXCEPT ![i] = [h EXCEPT !.pc = "notify"]]
                /\ UNCHANGED << verifyVars, nextMsg, ledger >>
           ELSE ToAnswer(i, h) /\ UNCHANGED ledger
    /\ UNCHANGED moderationVars

\* sock.sendMessage(senderJid, {text: userNotification}) settles.
NotifySettled(i, ok) ==
    /\ handlers[i].pc = "notify"
    /\ ToAnswer(i, [handlers[i] EXCEPT !.notifies = @ + 1])
    /\ UNCHANGED << ledger, moderationVars >>

\* sock.sendMessage(remoteJid, {text: verificationResult.message}) settles.
ReplySettled(i, ok) ==
    /\ handlers[i].pc = "reply"
    /\ handlers' = [handlers EXCEPT ![i].pc = "done"]
    /\ UNCHANGED << verifyVars, nextMsg, ledger, moderationVars >>

\* The awaited calls of a handler run settle.
HandlerSteps(i) ==
    \/ \E ok \in BOOLEAN, kw \in KeywordStages : AdminLookup(i, ok, kw)
    \/ \E o \in ImageOutcomes, kw \in KeywordStages : ImageAnalysed(i, o, kw)
    \/ \E o \in ToxicOutcomes : ToxicSettled(i, o)
    \/ \E o \in TopicOutcomes : TopicSettled(i, o)
    \/ \E ok \in BOOLEAN : DeleteSettled(i, ok)
    \/ \E ok \in BOOLEAN : NotifySettled(i, ok)
    \/ \E ok \in BOOLEAN : ReplySettled(i, ok)

Handler(P, G) ==
    \E i \in HandlerSlots :
        \/ \E p \in P, g \in G, r \in Roles, m \in HandlerMessages :
              MessageEvent(i, p, g, r, m.kind, m.body)
        \/ HandlerSteps(i)

\* Messages of one room going through the handler, with joins of that room.
NextHandler == Handler(Phones, {"g1"}) \/ Join(Phones, {"g1"}, {<<"a", "B", "1">>}, FALSE)

SpecHandler == Init /\ [][NextHandler]_vars

\* ------------------------------------------------------- event filters
\* groupIdToName as buildGroupMapping filled it: g4 is a room the bot joined
\* after the mapping was built.
groupIdToName ==
    [g \in {"g1", "g2", "g3"} |->
        CASE g = "g1" -> <<"A", "b">>
          [] g = "g2" -> <<"b">>
          [] OTHER -> <<"a">>]

\* config.groupsToMonitor
groupsToMonitor == { <<"a", "B">>, <<"B">> }

\* jidToPhone(sock.user?.id)
botNumber == "bot"

\* every room taken as monitored
isMonitoredGroupAnyRoom(groupId) == TRUE

\* isMonitoredGroup: the room has a name in the mapping and that name equals a
\* configured name, both lower-cased.
isMonitoredGroup(groupId) ==
    /\ groupId \in DOMAIN groupIdToName
    /\ \E name \in groupsToMonitor :
          toLowerCase(name) = toLowerCase(groupIdToName[groupId])

EventRooms == {"g1", "g3", "g4"}

EventPhones == {"p1", botNumber}

\* sock.ev.on('group-participants.update') with one participant.
ParticipantsUpdate(j, groupId, action, phone, metaOk) ==
    /\ lastEvent' = [kind |-> "join", group_id |-> groupId, action |-> action,
                     phone |-> phone, fromMe |-> FALSE, type |-> "notify"]
    /\ IF isMonitoredGroup(groupId) /\ action = "add" /\ phone # botNumber
       THEN StartJoin(j, phone, groupId, metaOk)
       ELSE UNCHANGED verifyVars
    /\ UNCHANGED << handlerVars, clock, recentMessages, spamLog, classified,
                    serviceVars, challenges, sweepLog >>

\* sock.ev.on('messages.upsert') with one message that has content.
MessagesUpsert(i, type, sender, groupId, fromMe, role, kind, body) ==
    /\ lastEvent' = [kind |-> "message", group_id |-> groupId, action |-> "none",
                     phone |-> sender, fromMe |-> fromMe, type |-> type]
    /\ IF type = "notify" /\ isMonitoredGroup(groupId) /\ ~fromMe
       THEN StartMessage(i, sender, groupId, role, kind, body)
       ELSE UNCHANGED << handlers, nextMsg >>
    /\ UNCHANGED << verifyVars, ledger, clock, recentMessages, spamLog, classified,
                    serviceVars, challenges, sweepLog >>

\* Join and message events of monitored and other rooms, from participants and
\* from the bot, with the handler runs they start; the messages are texts with
\* four links, whose runs end after the deletion and the notification.
NextEvents ==
    \/ \E j \in 1..MaxJoins, g \in EventRooms, a \in {"add", "remove"},
          p \in EventPhones, ok \in BOOLEAN : ParticipantsUpdate(j, g, a, p, ok)
    \/ \E j \in 1..MaxJoins, ok \in BOOLEAN : JoinCaptcha(j, <<"a", "B", "1">>, ok, FALSE)
    \/ \E i \in HandlerSlots, t \in {"notify", "append"}, p \in EventPhones,
          g \in EventRooms, me \in BOOLEAN :
            MessagesUpsert(i, t, p, g, me, "member", "conversation", FourLinks)
    \/ \E i \in HandlerSlots, ok \in BOOLEAN, kw \in KeywordStages : AdminLookup(i, ok, kw)
    \/ \E i \in HandlerSlots, ok \in BOOLEAN : DeleteSettled(i, ok)
    \/ \E i \in HandlerSlots, ok \in BOOLEAN : NotifySettled(i, ok)

SpecEvents == Init /\ [][NextEvents]_vars

\* ------------------------------------------- batches and failing messages
QueuedMessage(sender, groupId, role, m) ==
    [sender |-> sender, group_id |-> groupId, role |-> role, kind |-> m.kind, body |-> m.body]

\* without the try/catch of the loop body the exception leaves the loop
afterFailureAbandon(rest) == <<>>

\* catch (error) { console.error(...) }: the for loop goes on with the rest of
\* the batch.
afterFailure(rest) == rest

\* A messages.upsert event with two messages of one sender: the loop starts
\* on the first.
BatchEvent(i, sender, groupId, role, m1, m2) ==
    /\ queue[i] = <<>>
    /\ StartMessage(i, sender, groupId, role, m1.kind, m1.body)
    /\ queue' = [queue EXCEPT ![i] = << QueuedMessage(sender, groupId, role, m2) >>]
    /\ UNCHANGED << verifyVars, ledger, clock, recentMessages, spamLog, classified,
                    tmpdir, extractions, nextInv, restores, resent, admin, failedMsgs, observedVars >>

\* The loop body ended for a message: the loop goes to the next one.
NextMessage(i) ==
    /\ queue[i] # <<>>
    /\ LET m == Head(queue[i])
       IN  StartMessage(i, m.sender, m.group_id, m.role, m.kind, m.body)
    /\ queue' = [queue EXCEPT ![i] = Tail(@)]
    /\ UNCHANGED << verifyVars, ledger, clock, recentMessages, spamLog, classified,
                    tmpdir, extractions, nextInv, restores, resent, admin, failedMsgs, observedVars >>

\* A step of the loop body throws (a db call, a property of a malformed
\* message, checkVerificationAnswer): the catch block of the loop body runs.
HandlerFails(i) ==
    /\ handlers[i].pc \notin {"idle", "done"}
    /\ handlers' = [handlers EXCEPT ![i].pc = "done"]
    /\ failedMsgs' = failedMsgs \cup {handlers[i].msg}
    /\ queue' = [queue EXCEPT ![i] = afterFailure(@)]
    /\ UNCHANGED << verifyVars, nextMsg, ledger, clock, recentMessages, spamLog, classified,
                    tmpdir, extractions, nextInv, restores, resent, admin, observedVars >>

\* The batches: of a challenge code, a long text and a text with four links
\* quoting an image, each followed by another.
Batches ==
    LET code == [kind |-> "conversation", body |-> <<"A", "B", "1">>]
        long == [kind |-> "conversation", body |-> LongText]
        image == [kind |-> "quotedImage", body |-> FourLinks]
    IN  { <<code, long>>, <<long, image>>, <<image, code>> }

NextBatch ==
    \/ \E i \in HandlerSlots :
          \/ \E p \in Phones, b \in Batches : BatchEvent(i, p, "g1", "member", b[1], b[2])
          \/ NextMessage(i)
          \/ HandlerFails(i)
          \/ HandlerSteps(i)
    \/ Join(Phones, {"g1"}, {<<"a", "B", "1">>}, FALSE)

SpecBatch == Init /\ [][NextBatch]_vars

\* --------------------------------------------- calls of the spam detector
\* Texts for the repeat check: two spellings of one text, another text and a
\* short one.
RepeatTexts ==
    { <<"a", "b", " ", "a", "b">>,
      <<" ", "A", "b", " ", "a", "b">>,
      <<"b", "a", " ", "b", "a">>,
      <<"a", "b">> }

\* Texts for the link and caps checks: four links, three links, three matches
\* in five scheme occurrences, two upper-case letters among ten characters,
\* ten letters with seven and with eight in upper case, nine upper-case letters.
SpamTexts ==
    { <<"a", "b", " ", "a", "b">>,
      Link \o Blank \o Link \o Blank \o Link \o Blank \o Link,
      Link \o Blank \o Link \o Blank \o Link,
      <<"h", "t", "t", "p", "s", ":", "/", "/", "a">> \o Link \o Blank \o Link
          \o Blank \o <<"h", "t", "t", "p", ":", "/", "/">> \o Blank \o Link,
      <<"A", "B", " ", "1", "2", "1", "2", "1", "2", "1">>,
      <<"A", "B", "A", "B", "A", "B", "A", "b", "a", "b">>,
      <<"A", "B", "A", "B", "A", "B", "A", "B", "a", "b">>,
      <<"A", "B", "A", "B", "A", "B", "A", "B", "A">> }

\* moderation.checkSimpleSpam(message, senderPhone, groupId) is called; the
\* function is synchronous, so the call is one step.
SpamCallOf(calls, senderPhone, groupId, message) ==
    /\ Len(spamLog) < calls
    /\ LET r == checkSimpleSpam(recentMessages, message, senderPhone, groupId, clock)
       IN  /\ recentMessages' = r.cache
           /\ spamLog' = Append(spamLog, [t |-> clock, phone |-> senderPhone,
                                           group_id |-> groupId, message |-> message,
                                           result |-> r.result])
    /\ UNCHANGED << verifyVars, handlerVars, clock, classified, serviceVars, observedVars >>

SpamCall(senderPhone, groupId, message) == SpamCallOf(MaxCalls, senderPhone, groupId, message)

\* 30 s pass.
ClockTick ==
    /\ clock < MaxClock
    /\ clock' = clock + 1
    /\ UNCHANGED << verifyVars, handlerVars, recentMessages, spamLog, classified, serviceVars, observedVars >>

NextSpamOf(P, G, T) ==
    \/ \E p \in P, g \in G, m \in T : SpamCall(p, g, m)
    \/ ClockTick

\* Repeated texts of two rooms' keys.
NextSpam == NextSpamOf(Phones, Groups, RepeatTexts)

SpecSpam == Init /\ [][NextSpam]_vars

\* Calls of one run in which a streak goes past the threshold.
MaxStreak == 4

\* One normalized text in two spellings of 5 characters and one of 2, and a
\* different text.
StreakTexts ==
    { <<"a", "b", " ", " ", " ">>,
      <<" ", "A", "b", " ", " ">>,
      <<"a", "b">>,
      <<"b", "a", " ", "b", "a">> }

\* Streaks of one key.
NextStreak ==
    \/ \E p \in Phones, m \in StreakTexts : SpamCallOf(MaxStreak, p, "g1", m)
    \/ ClockTick

SpecStreak == Init /\ [][NextStreak]_vars

\* One key, all the texts of the link and caps checks.
NextDetect == NextSpamOf(Phones, {"g1"}, SpamTexts)

SpecDetect == Init /\ [][NextDetect]_vars

\* Direct calls of the classification operations, one at a time.
SpecClassify == Init /\ [][NextClassify]_vars

\* ------------------------------------------------- media frame extraction
\* Frames asked of one extraction (numFrames; the default of the code is 4).
NumFrames == 2
\* Extractions started in a run.
MaxInv == 3

\* A file of the temporary directory: video_<stamp>.mp4, gif_<stamp>.gif,
\* frame_<stamp>_<n>.jpg or gifframe_<stamp>_<n>.jpg. Each extraction has a
\* stamp of its own.
File(name, inv, n) == [name |-> name, inv |-> inv, n |-> n]

framePrefix(kind) == IF kind = "video" THEN "frame" ELSE "gifframe"

\* fs.readdirSync(tempDir).filter(f => f.startsWith(prefix) && f.endsWith('.jpg'))
frameFiles(dir, prefix) == {f \in dir : f.name = prefix}

\* .sort(): by stamp, then by frame number
RECURSIVE sortFiles(_)
sortFiles(files) ==
    IF files = {} THEN <<>>
    ELSE LET first == CHOOSE f \in files :
                         \A q \in files : f.inv < q.inv \/ (f.inv = q.inv /\ f.n <= q.n)
         IN  <<first>> \o sortFiles(files \ {first})

\* The files an extraction reads as its frames and unlinks: the video version
\* takes every frame_*.jpg of the directory, the GIF version the first
\* numFrames of the sorted gifframe_*.jpg.
readFrames(dir, kind) ==
    IF kind = "video" THEN frameFiles(dir, "frame")
    ELSE LET sorted == sortFiles(frameFiles(dir, "gifframe"))
         IN  {sorted[k] : k \in 1..(IF Len(sorted) < NumFrames THEN Len(sorted) ELSE NumFrames)}

\* extractVideoFrames / extractGifFrames is called: the buffer is written to
\* the temporary input file; the video version awaits ffprobe, the GIF version
\* its ffmpeg run.
ExtractStart(s, kind) ==
    /\ extractions[s].pc \in {"idle", "done"}
    /\ nextInv <= MaxInv
    /\ tmpdir' = tmpdir \cup {File(kind, nextInv, 0)}
    /\ extractions' = [extractions EXCEPT ![s] =
          [IdleExtraction EXCEPT !.pc = IF kind = "video" THEN "probe" ELSE "ffmpeg",
                                 !.kind = kind, !.inv = nextInv]]
    /\ nextInv' = nextInv + 1
    /\ UNCHANGED << verifyVars, handlerVars, clock, recentMessages, spamLog, classified,
                    restores, resent, admin, queue, failedMsgs, observedVars >>

\* catch (error): the temporary input file is unlinked and the error rethrown.
Rethrown(s) ==
    LET e == extractions[s]
    IN  /\ tmpdir' = tmpdir \ {File(e.kind, e.inv, 0)}
        /\ extractions' = [extractions EXCEPT ![s] =
              [e EXCEPT !.pc = "done", !.impossible = TRUE, !.result = "raise"]]

\* The frames are read and unlinked with the temporary input file, and returned.
Returned(s) ==
    LET e == extractions[s]
        read == readFrames(tmpdir, e.kind)
    IN  /\ tmpdir' = (tmpdir \ read) \ {File(e.kind, e.inv, 0)}
        /\ extractions' = [extractions EXCEPT ![s] =
              [e EXCEPT !.pc = "done", !.result = "frames", !.frames = read]]

\* ffmpeg.ffprobe calls back, with the duration or with an error.
ProbeSettled(s, ok) ==
    /\ extractions[s].pc = "probe"
    /\ IF ok
       THEN /\ extractions' = [extractions EXCEPT ![s].pc = "primary"]
            /\ UNCHANGED tmpdir
       ELSE Rethrown(s)
    /\ UNCHANGED << verifyVars, handlerVars, clock, recentMessages, spamLog, classified,
                    nextInv, restores, resent, admin, queue, failedMsgs, observedVars >>

\* A running ffmpeg writes its next frame file (-frames:v numFrames at most).
FrameWritten(s) ==
    LET e == extractions[s]
    IN  /\ e.pc \in {"primary", "fallback", "ffmpeg"}
        /\ e.written < NumFrames
        /\ tmpdir' = tmpdir \cup {File(framePrefix(e.kind), e.inv, e.written + 1)}
        /\ extractions' = [extractions EXCEPT ![s].written = @ + 1]
        /\ UNCHANGED << verifyVars, handlerVars, clock, recentMessages, spamLog, classified,
                        nextInv, restores, resent, admin, queue, failedMsgs, observedVars >>

\* The ffmpeg run of the timestamp selection ends or fails; on failure the
\* fallback run is started on the same output pattern.
PrimarySettled(s, ok) ==
    /\ extractions[s].pc = "primary"
    /\ IF ok
       THEN Returned(s)
       ELSE /\ extractions' = [extractions EXCEPT ![s].pc = "fallback", ![s].written = 0]
            /\ UNCHANGED tmpdir
    /\ UNCHANGED << verifyVars, handlerVars, clock, recentMessages, spamLog, classified,
                    nextInv, restores, resent, admin, queue, failedMsgs, observedVars >>

\* The fallback run of the video version, or the one run of the GIF version,
\* ends or fails.
LastRunSettled(s, ok) ==
    /\ extractions[s].pc \in {"fallback", "ffmpeg"}
    /\ IF ok THEN Returned(s) ELSE Rethrown(s)
    /\ UNCHANGED << verifyVars, handlerVars, clock, recentMessages, spamLog, classified,
                    nextInv, restores, resent, admin, queue, failedMsgs, observedVars >>

NextExtract ==
    \E s \in ExtractSlots :
        \/ \E kind \in {"video", "gif"} : ExtractStart(s, kind)
        \/ \E ok \in BOOLEAN : ProbeSettled(s, ok)
        \/ FrameWritten(s)
        \/ \E ok \in BOOLEAN : PrimarySettled(s, ok)
        \/ \E ok \in BOOLEAN : LastRunSettled(s, ok)

SpecExtract == Init /\ [][NextExtract]_vars

\* ------------------------------------------------ restore-message endpoint
\* Restore requests received in a run.
MaxRestores == 3

NoLog == [id |-> 0]

\* SELECT * FROM moderation_logs WHERE id = ?
getModerationLogById(log, logId) ==
    IF \E k \in 1..Len(log) : log[k].id = logId
    THEN log[CHOOSE k \in 1..Len(log) : log[k].id = logId]
    ELSE NoLog

\* UPDATE moderation_logs SET restored = 1 WHERE id = ?
markMessageRestored(log, logId) ==
    [k \in 1..Len(log) |->
        IF log[k].id = logId THEN [log[k] EXCEPT !.restored = TRUE] ELSE log[k]]

\* the checks without `if (log.restored)`
restoreCheckNoRestoredTest(log, connected) ==
    CASE log = NoLog -> "Message not found"
      [] ~connected -> "Bot not connected"
      [] OTHER -> "proceed"

\* The checks of the endpoint before its first await.
restoreCheck(log, connected) ==
    CASE log = NoLog -> "Message not found"
      [] log.restored -> "Message already restored"
      [] ~connected -> "Bot not connected"
      [] OTHER -> "proceed"

Succeeded(r) == r.pc = "done" /\ r.response = "Message restored successfully"

\* db.markMessageRestored placed where the catch block runs it too
afterSendMarkAlways(log, logId, ok) == markMessageRestored(log, logId)

\* The rows after the awaited sock.sendMessage settled: markMessageRestored
\* follows the await inside the try block.
afterSend(log, logId, ok) == IF ok THEN markMessageRestored(log, logId) ELSE log

\* The handler of a message logged a violation (db.logModeration).
ViolationLogged(p, g) ==
    /\ nextMsg <= MaxMsgs
    /\ ledger' = logModeration(ledger, [IdleHandler EXCEPT !.msg = nextMsg, !.sender = p,
                                                          !.group_id = g], "excessive_links")
    /\ nextMsg' = nextMsg + 1
    /\ UNCHANGED << verifyVars, handlers, moderationVars >>

\* POST /api/restore-message/:id arrives: the log row is read and checked; the
\* request answers at once, or awaits sock.groupMetadata (a room without a
\* configured name), or awaits sock.sendMessage.
RestoreRequest(logId, connected, named) ==
    LET log == getModerationLogById(ledger, logId)
        check == restoreCheck(log, connected)
    IN  /\ Len(restores) < MaxRestores
        /\ restores' = Append(restores,
              [id |-> logId,
               pc |-> IF check # "proceed" THEN "done" ELSE IF named THEN "send" ELSE "meta",
               response |-> IF check # "proceed" THEN check ELSE "none",
               after |-> {j \in 1..Len(restores) : Succeeded(restores[j])},
               atWrite |-> FALSE])
        /\ UNCHANGED << verifyVars, handlerVars, clock, recentMessages, spamLog, classified,
                        tmpdir, extractions, nextInv, resent, admin, queue, failedMsgs, observedVars >>

\* sock.groupMetadata settles; a failure is swallowed.
RestoreMetaSettled(k, ok) ==
    /\ restores[k].pc = "meta"
    /\ restores' = [restores EXCEPT ![k].pc = "send"]
    /\ UNCHANGED << verifyVars, handlerVars, clock, recentMessages, spamLog, classified,
                    tmpdir, extractions, nextInv, resent, admin, queue, failedMsgs, observedVars >>

\* sock.sendMessage(log.group_id, {text: restoredMessage}) settles: the row is
\* marked restored and the request answers success, or the catch block answers
\* the error.
RestoreSendSettled(k, ok) ==
    /\ restores[k].pc = "send"
    /\ ledger' = afterSend(ledger, restores[k].id, ok)
    /\ IF ok
       THEN /\ resent' = Append(resent, [log |-> restores[k].id, request |-> k])
            /\ restores' = [restores EXCEPT
                  ![k].pc = "done", ![k].response = "Message restored successfully",
                  ![k].atWrite = LET row == getModerationLogById(ledger, restores[k].id)
                                IN  row # NoLog /\ row.restored]
       ELSE /\ restores' = [restores EXCEPT ![k].pc = "done", ![k].response = "error"]
            /\ UNCHANGED resent
    /\ UNCHANGED << verifyVars, handlers, nextMsg, clock, recentMessages, spamLog, classified,
                    tmpdir, extractions, nextInv, admin, queue, failedMsgs, observedVars >>

NextRestore ==
    \/ \E p \in Phones : ViolationLogged(p, "g1")
    \/ \E id \in 1..(Len(ledger) + 1), c \in BOOLEAN, n \in BOOLEAN : RestoreRequest(id, c, n)
    \/ \E k \in 1..Len(restores), ok \in BOOLEAN : RestoreMetaSettled(k, ok)
    \/ \E k \in 1..Len(restores), ok \in BOOLEAN : RestoreSendSettled(k, ok)

SpecRestore == Init /\ [][NextRestore]_vars

\* -------------------------------------------------- moderation_logs updates
\* The values handleAdminResponse knows (ignore/ban/mute); two of them suffice.
Responses == {"ignore", "ban"}

\* the UPDATE without its WHERE clause
updateModerationResponseAllRows(log, logId, response) ==
    [k \in 1..Len(log) |->
        IF log[k] # NoLog THEN [log[k] EXCEPT !.admin_response = response] ELSE log[k]]

\* UPDATE moderation_logs SET admin_response = ? WHERE id = ?
updateModerationResponse(log, logId, response) ==
    [k \in 1..Len(log) |->
        IF log[k].id = logId THEN [log[k] EXCEPT !.admin_response = response] ELSE log[k]]

\* DELETE FROM moderation_logs. The id column is AUTOINCREMENT: the ids of
\* deleted rows are not given out again, so the positions of the deleted rows
\* stay taken and hold no row.
clearModerationLogs(log) == [k \in 1..Len(log) |-> NoLog]

\* db.updateModerationResponse(logId, response) is called.
ResponseRecorded(logId, response) ==
    /\ ledger' = updateModerationResponse(ledger, logId, response)
    /\ UNCHANGED << verifyVars, handlers, nextMsg, moderationVars >>

\* POST /api/clear-moderation-logs
LogsCleared ==
    /\ \E k \in 1..Len(ledger) : ledger[k] # NoLog
    /\ ledger' = clearModerationLogs(ledger)
    /\ UNCHANGED << verifyVars, handlers, nextMsg, moderationVars >>

\* Violations logged, restore requests of a connected bot for named rooms (one
\* in flight at a time), admin responses recorded and the bulk clear.
NextLedger ==
    \/ \E p \in Phones : ViolationLogged(p, "g1")
    \/ /\ \A k \in 1..Len(restores) : restores[k].pc = "done"
       /\ \E id \in 1..Len(ledger) : RestoreRequest(id, TRUE, TRUE)
    \/ \E k \in 1..Len(restores) : RestoreSendSettled(k, TRUE)
    \/ \E id \in 1..Len(ledger), r \in Responses : ResponseRecorded(id, r)
    \/ LogsCleared

SpecLedger == Init /\ [][NextLedger]_vars

\* ----------------------------------------------------- handleAdminResponse
\* String.prototype.includes
includesExact(s, sub) ==
    \E i \in 1..Len(s) :
        /\ i + Len(sub) - 1 <= Len(s)
        /\ \A k \in 1..Len(sub) : s[i + k - 1] = sub[k]

IgnoreWord == <<"i", "g", "n", "o", "r", "e">>
BanWord == <<"b", "a", "n">>
MuteWord == <<"m", "u", "t", "e">>

\* const action = response.toLowerCase().trim()
adminAction(response) == trim(toLowerCase(response))

\* the ban test placed before the ignore test
adminClassBanFirst(action) ==
    CASE includesExact(action, BanWord) -> "ban"
      [] includesExact(action, IgnoreWord) -> "ignore"
      [] includesExact(action, MuteWord) -> "mute"
      [] OTHER -> "unknown"

\* The chain of if statements: the first test that matches decides.
adminClass(action) ==
    CASE includesExact(action, IgnoreWord) -> "ignore"
      [] includesExact(action, BanWord) -> "ban"
      [] includesExact(action, MuteWord) -> "mute"
      [] OTHER -> "unknown"

\* A user identity handed to the function: a bare phone number (domain "") or a
\* full JID.
AdminUsers == { [phone |-> p, domain |-> d] : p \in Phones, d \in {"", "s.whatsapp.net"} }

\* if (!participantJid.includes('@')) participantJid = participantJid + '@s.whatsapp.net'
participantJid(userPhone) ==
    IF userPhone.domain = "" THEN [userPhone EXCEPT !.domain = "s.whatsapp.net"] ELSE userPhone

\* a removal for mute as well
adminRemovalsAlsoMute(class, groupId, userPhone) ==
    IF class \in {"ban", "mute"}
    THEN << [group_id |-> groupId, participants |-> <<participantJid(userPhone)>>,
             action |-> "remove"] >>
    ELSE <<>>

\* The sock.groupParticipantsUpdate calls of one handleAdminResponse call.
adminRemovals(class, groupId, userPhone) ==
    IF class = "ban"
    THEN << [group_id |-> groupId, participants |-> <<participantJid(userPhone)>>,
             action |-> "remove"] >>
    ELSE <<>>

\* The string the function returns; removeOk tells whether the removal call
\* resolved.
adminMessage(class, removeOk) ==
    CASE class = "ignore" -> "Action: Ignored. No action taken."
      [] class = "ban" /\ removeOk -> "Action: User has been removed from the group."
      [] class = "ban" -> "Error banning user"
      [] class = "mute" -> "Action: Mute functionality coming soon."
      [] OTHER -> "Unknown action. Use: ignore, ban, or mute"

handleAdminResponse(response, groupId, userPhone, removeOk) ==
    LET class == adminClass(adminAction(response))
    IN  [result |-> "returned", class |-> class,
         removals |-> adminRemovals(class, groupId, userPhone),
         message |-> adminMessage(class, removeOk)]

\* Admin replies.
AdminTexts ==
    { <<"i", "g", "n", "o", "r", "e">>,
      <<"I", "g", "n", "o", "r", "e", " ", "b", "a", "n">>,
      <<"B", "A", "n", " ", "i", "g", "n", "o", "r", "e">>,
      <<" ", "B", "A", "n", " ">>,
      <<"b", "a", "n", " ", "m", "u", "t", "e">>,
      <<"m", "u", "t", "e", " ", "b", "a", "n">>,
      <<"M", "u", "t", "e">>,
      <<"b", "a", "n", "a", "n", "a">>,
      <<"a", "b">>,
      <<>> }

\* moderation.handleAdminResponse(response, sock, groupId, userPhone) is called
\* and settles.
AdminResponse(response, groupId, userPhone, removeOk) ==
    /\ admin' = [response |-> response, group_id |-> groupId, user |-> userPhone,
                 removeOk |-> removeOk]
                  @@ handleAdminResponse(response, groupId, userPhone, removeOk)
    /\ UNCHANGED << verifyVars, handlerVars, clock, recentMessages, spamLog, classified,
                    tmpdir, extractions, nextInv, restores, resent, queue, failedMsgs, observedVars >>

NextAdmin ==
    \/ \E t \in AdminTexts, g \in Groups, u \in AdminUsers, ok \in BOOLEAN :
          AdminResponse(t, g, u, ok)
    \/ \E p \in Phones : ViolationLogged(p, "g1")

SpecAdmin == Init /\ [][NextAdmin]_vars

\* ---------------------------------------------------------------- claims

\* C1: 'verify' and 'expire' never both apply to the same pending record: a row
\* whose correct answer was accepted is in no sweep's expired set and has
\* received no removal attempt, at any time.
C1_VerifyExpireExclusive ==
    \A id \in accepted :
        /\ kickAttempts[id] = 0
        /\ \A s \in 1..MaxSweeps : id \notin SnapshotIds(s)

\* C1 witness: one row was accepted, another received a removal attempt, and a
\* sweep is suspended over its expired set.
C1_Witness ==
    /\ accepted # {}
    /\ \E id \in 1..MaxIds : kickAttempts[id] >= 1
    /\ \E s \in 1..MaxSweeps : sweeps[s].pc = "loop"

\* C2: every expired, unanswered row that the sweep has deleted from storage
\* received exactly one removal attempt.
C2_ExactlyOneRemoval ==
    \A id \in cleaned : kickAttempts[id] = 1

\* C3: no pending row receives more than one removal attempt or more than one
\* timeout notice, overlapping sweeps included.
C3_AtMostOneRemoval ==
    \A id \in 1..MaxIds : kickAttempts[id] <= 1 /\ notices[id] <= 1

\* C4: a verified (phone, room) row, once present, is present in every later
\* state.
C4_VerifiedStays ==
    [][\A r \in verified : r \in verified']_vars

SameKey(r, q) == r.phone = q.phone /\ r.group_id = q.group_id

\* C5: there is at most one pending row per (phone, room); a newly issued
\* challenge becomes the only row of its key, with its own code and expiry, and
\* the rows of all other keys are left as they were.
C5_OnePendingPerKey ==
    /\ [](\A r, q \in pending : SameKey(r, q) => r = q)
    /\ [][nextId' # nextId =>
            \E new \in pending' :
                /\ new.id = nextId
                /\ new.created_at = now
                /\ new.expires_at = now + TimeoutMinutes
                /\ new.captcha_code \in {toUpperCase(c) : c \in GeneratedCodes}
                /\ {r \in pending' : SameKey(r, new)} = {new}
                /\ {r \in pending' : ~SameKey(r, new)} = {r \in pending : ~SameKey(r, new)}
         ]_vars

\* C5 witness: the newest row replaced an earlier row of its key (that row was
\* neither answered nor swept) while a row of another key is still stored.
C5_Witness ==
    \E new \in pending, other \in pending :
        /\ ~SameKey(new, other)
        /\ other.id < new.id
        /\ \E old \in 1..(new.id - 1) :
              old \notin IdsOf(pending) /\ old \notin accepted /\ old \notin cleaned

\* Equality of two texts up to letter case.
EqualsIgnoringCase(a, b) ==
    /\ Len(a) = Len(b)
    /\ \A i \in 1..Len(a) : toLowerChar(a[i]) = toLowerChar(b[i])

\* The step is a checkVerificationAnswer call.
AnswerStep == answer'.result # "none"

\* The stored rows of the answering key that have not expired.
LiveRows == {r \in RowsOf(pending, answer'.phone, answer'.group_id) : now < r.expires_at}

\* C6: with a non-expired pending row, a message whose trimmed text equals the
\* stored code in any letter case deletes the pending row, creates the verified
\* row and returns success; the same submission repeated right after returns
\* null and changes neither table.
C6_CorrectAnswerVerifiesOnce ==
    [][AnswerStep =>
        /\ (\E r \in LiveRows : EqualsIgnoringCase(trim(answer'.text), r.captcha_code)) =>
              /\ answer'.result = "success"
              /\ RowsOf(pending', answer'.phone, answer'.group_id) = {}
              /\ RowsOf(verified', answer'.phone, answer'.group_id) # {}
        /\ (/\ answer.result = "success"
            /\ answer.phone = answer'.phone
            /\ answer.group_id = answer'.group_id
            /\ answer.text = answer'.text) =>
              /\ answer'.result = "null"
              /\ pending' = pending
              /\ verified' = verified
     ]_vars

\* C6 witness: the code typed in lower case with surrounding blanks was accepted.
C6_Witness ==
    /\ answer.result = "success"
    /\ answer.text = <<" ", "a", "b", "1", " ">>
    /\ RowsOf(verified, answer.phone, answer.group_id) # {}
    /\ RowsOf(pending, answer.phone, answer.group_id) = {}

\* A trimmed text of 3 to 7 alphanumeric characters.
ChallengeShaped(text) ==
    /\ Len(trim(text)) \in 3..7
    /\ \A i \in 1..Len(trim(text)) : isAlnum(trim(text)[i])

C7_Body(rows) ==
    (/\ rows # {}
     /\ \A r \in rows : ~EqualsIgnoringCase(trim(answer'.text), r.captcha_code)) =>
        /\ answer'.result = IF ChallengeShaped(answer'.text) THEN "wrong" ELSE "null"
        /\ pending' = pending
        /\ verified' = verified

\* C7 as stated: while a pending row is stored for the key, a challenge-shaped
\* text that is not the code yields "wrong code", any other non-matching text
\* yields nothing, and both tables are unchanged.
C7_AnyStoredRow ==
    [][AnswerStep => C7_Body(RowsOf(pending, answer'.phone, answer'.group_id))]_vars

\* C7 amended: the same, while a non-expired pending row is stored for the key.
C7_WrongCodeLeavesRecord ==
    [][AnswerStep => C7_Body(LiveRows)]_vars

\* C7 witness: a wrong code was answered and the pending row is still stored.
C7_Witness ==
    /\ answer.result = "wrong"
    /\ \E r \in RowsOf(pending, answer.phone, answer.group_id) : now < r.expires_at

\* C8: a stored row created at c is returned by getPendingVerification exactly
\* while now < c + T and by getExpiredVerifications exactly while now >= c + T,
\* so at every instant it is in one of the two sets and not in both.
C8_PendingXorExpired ==
    \A r \in pending :
        LET retrievable == getPendingVerification(pending, r.phone, r.group_id, now) = r
            expiredSet == getExpiredVerifications(pending, now)
            isExpired == \E i \in 1..Len(expiredSet) : expiredSet[i] = r
        IN  /\ retrievable <=> now < r.created_at + TimeoutMinutes
            /\ isExpired <=> now >= r.created_at + TimeoutMinutes
            /\ retrievable # isExpired

\* C8 witness: one stored row is at the very instant of its expiry while
\* another has not reached it.
C8_Witness ==
    \E r \in pending, q \in pending :
        /\ now = r.created_at + TimeoutMinutes
        /\ now < q.created_at + TimeoutMinutes

\* The ledger rows logged for message m.
EntriesOf(m) == {k \in 1..Len(ledger) : ledger[k].msg = m}

\* C9: for a message whose sender is an admin or superadmin of the room, whatever
\* the outcome of the metadata lookup, the pipeline is not invoked and no ledger
\* row, deletion or notification is produced.
C9_AdminsExempt ==
    \A i \in HandlerSlots :
        handlers[i].role \in {"admin", "superadmin"} =>
            /\ handlers[i].pipeline = 0
            /\ handlers[i].logged = 0 /\ EntriesOf(handlers[i].msg) = {}
            /\ handlers[i].deletes = 0
            /\ handlers[i].notifies = 0

\* C10: for a non-admin's message with a non-null verdict exactly one ledger row
\* is created and exactly one deletion is attempted, the row being there before
\* the deletion settles; whether or not the deletion succeeds the row stays and
\* the notification is attempted.
C10_OneEntryOneDeletion ==
    \A i \in HandlerSlots :
        (handlers[i].role = "member" /\ handlers[i].verdict # "null") =>
            /\ handlers[i].logged = 1
            /\ Cardinality(EntriesOf(handlers[i].msg)) = 1
            /\ handlers[i].deletes = IF handlers[i].pc = "delete" THEN 0 ELSE 1
            /\ handlers[i].notifies = IF handlers[i].pc \in {"delete", "notify"} THEN 0 ELSE 1

\* C10 witness: a member's violating message was handled to the end, its
\* deletion failed, its ledger row is stored and the notification was attempted.
C10_Witness ==
    \E i \in HandlerSlots :
        /\ handlers[i].role = "member"
        /\ handlers[i].verdict # "null"
        /\ handlers[i].pc = "done"
        /\ ~handlers[i].deleteOk
        /\ handlers[i].notifies = 1
        /\ Cardinality(EntriesOf(handlers[i].msg)) = 1

\* ------------------------------------------------- claims on the detector
SpamCallStep == Len(spamLog') = Len(spamLog) + 1

LastCall == spamLog'[Len(spamLog')]

\* Number of white-space delimited words of a text that hold http:// or
\* https:// followed by at least one more character.
UrlLikeCount(m) ==
    Cardinality({i \in 1..Len(m) :
        /\ ~isSpace(m[i])
        /\ i = 1 \/ isSpace(m[i - 1])
        /\ \E j \in i..(nextSpace(m, i) - 1) :
              schemeAt(m, j) > 0 /\ j + schemeAt(m, j) < nextSpace(m, i)})

\* C15: a text of at least 5 characters with more than 3 URL-like substrings
\* yields excessive_links with severity medium, and the call leaves the repeat
\* cache as it was (neither cleaned nor updated).
C15_ExcessiveLinksFirst ==
    [][SpamCallStep /\ Len(LastCall.message) >= 5 /\ UrlLikeCount(LastCall.message) > 3
        => /\ LastCall.result = [type |-> "excessive_links", severity |-> "medium"]
           /\ recentMessages' = recentMessages]_vars

\* C15 case: a four-link text got its verdict while the cache held an entry
\* older than the repeat window.
C15_Witness ==
    /\ spamLog # <<>>
    /\ spamLog[Len(spamLog)].result.type = "excessive_links"
    /\ spamLog[Len(spamLog)].t = clock
    /\ \E k \in DOMAIN recentMessages :
          recentMessages[k] # NoEntry /\ clock - recentMessages[k].lastTime > repeatWindow

LetterCount(m) == Len(SelectSeq(m, isLetter))
UpperCount(m) == Len(SelectSeq(m, isUpper))

\* C16: a text with fewer than 10 letters never yields excessive_caps; a text
\* with at least 10 letters and at most 3 links yields excessive_caps (severity
\* low) exactly when upper-case letters / letters > 0.7.
C16_CapsByLetterCount ==
    \A k \in 1..Len(spamLog) :
        LET m == spamLog[k].message
            caps == spamLog[k].result = [type |-> "excessive_caps", severity |-> "low"]
        IN  /\ LetterCount(m) < 10 => spamLog[k].result.type # "excessive_caps"
            /\ LetterCount(m) >= 10 /\ UrlLikeCount(m) <= 3
                 => (caps <=> 10 * UpperCount(m) > 7 * LetterCount(m))

Normalized(m) == trim([i \in 1..Len(m) |-> toLowerChar(m[i])])

SameSender(i, k) ==
    spamLog[i].phone = spamLog[k].phone /\ spamLog[i].group_id = spamLog[k].group_id

SameText(i, k) == Normalized(spamLog[i].message) = Normalized(spamLog[k].message)

\* The call before call k of the same (sender, room), 0 when k is its first.
PrevCall(k) ==
    IF \E i \in 1..(k - 1) : SameSender(i, k)
    THEN CHOOSE i \in 1..(k - 1) :
            SameSender(i, k) /\ \A j \in (i + 1)..(k - 1) : ~SameSender(j, k)
    ELSE 0

\* The message of call k has at least 5 characters and drew no links or caps verdict.
PlainCall(k) ==
    /\ Len(spamLog[k].message) >= 5
    /\ spamLog[k].result.type \notin {"excessive_links", "excessive_caps"}

\* Calls i, j, k are three calls in a row of one (sender, room), of one
\* normalized text, the last at most 60 s after the first.
ThreeInARow(i, j, k) ==
    /\ j = PrevCall(k) /\ j > 0
    /\ i = PrevCall(j) /\ i > 0
    /\ SameText(i, k) /\ SameText(j, k)
    /\ spamLog[k].t - spamLog[i].t <= repeatWindow

FirstOccurrence(i) == \A h \in 1..(i - 1) : ~(SameSender(h, i) /\ SameText(h, i))

C17_Body(plainOnly) ==
    \A k \in 1..Len(spamLog) :
        /\ \A i, j \in 1..(k - 1) :
              ThreeInARow(i, j, k)
                /\ (plainOnly => PlainCall(i) /\ PlainCall(j) /\ PlainCall(k))
                 => /\ spamLog[k].result = [type |-> "repeated_message", severity |-> "medium"]
                    /\ FirstOccurrence(i)
                         => spamLog[i].result.type = "null" /\ spamLog[j].result.type = "null"
        /\ spamLog[k].result.type = "repeated_message"
              => Cardinality({i \in 1..k : SameSender(i, k) /\ SameText(i, k)}) >= 3
        /\ ( /\ PrevCall(k) > 0
             /\ ~SameText(PrevCall(k), k)
             /\ \A i \in 1..(k - 1) :
                   SameSender(i, k) /\ SameText(i, k)
                      => spamLog[k].t - spamLog[i].t > repeatWindow )
              => spamLog[k].result.type # "repeated_message"

\* C17 as stated: the same normalized text sent 3 times within 60 s by one
\* (sender, room) yields null, null, repeated_message, whatever the text.
C17_AnyText == C17_Body(FALSE)

\* C17: the same normalized text sent 3 times in a row within 60 s by one
\* (sender, room), each message of at least 5 characters and drawing no links
\* or caps verdict, yields null for the 1st and 2nd occurrence and
\* repeated_message for the 3rd, and no earlier; after the window has expired
\* and a differing message intervened a further occurrence yields no violation.
C17_ThirdRepeatFlagged == C17_Body(TRUE)

\* C17 case: three plain calls in a row within the window, the third flagged.
C17_Witness ==
    \E i, j, k \in 1..Len(spamLog) :
        /\ ThreeInARow(i, j, k) /\ PlainCall(i) /\ PlainCall(j) /\ PlainCall(k)
        /\ FirstOccurrence(i)
        /\ spamLog[k].result.type = "repeated_message"
        /\ spamLog[k].message # spamLog[j].message

\* C18: repeated_message is returned only when the same normalized text was
\* sent at least 3 times by the same (sender, room) within one 60-second
\* period, from the first of those occurrences to the last.
C18_ThreeWithinOneWindow ==
    \A k \in 1..Len(spamLog) :
        spamLog[k].result.type = "repeated_message"
           => \E i, j \in 1..(k - 1) :
                 /\ i < j
                 /\ SameSender(i, k) /\ SameText(i, k)
                 /\ SameSender(j, k) /\ SameText(j, k)
                 /\ spamLog[k].t - spamLog[i].t <= repeatWindow

EntryBefore == recentMessages[<<LastCall.phone, LastCall.group_id>>]
EntryAfter == recentMessages'[<<LastCall.phone, LastCall.group_id>>]

DiffersFromEntry ==
    EntryBefore # NoEntry /\ EntryBefore.message # Normalized(LastCall.message)

ResetToOne ==
    /\ EntryAfter # NoEntry
    /\ EntryAfter.message = Normalized(LastCall.message)
    /\ EntryAfter.count = 1

\* C19 as stated: any message whose normalized text differs from the entry's
\* text leaves the entry holding the new text with count 1.
C19_AnyDifferentText ==
    [][SpamCallStep /\ DiffersFromEntry => ResetToOne]_vars

\* C19: a message of at least 5 characters that draws no links or caps verdict
\* and whose normalized text differs from the entry's text leaves the entry
\* holding the new text with count 1.
C19_DifferentTextResets ==
    [][SpamCallStep /\ DiffersFromEntry /\ Len(LastCall.message) >= 5
         /\ LastCall.result.type \notin {"excessive_links", "excessive_caps"}
        => ResetToOne]_vars

\* C19 case: a key's entry had count 2 when a different plain text arrived at
\* the same instant; the entry now holds that text with count 1.
C19_Witness ==
    \E k \in 3..Len(spamLog) :
        /\ k = Len(spamLog)
        /\ PrevCall(k) > 0 /\ PrevCall(PrevCall(k)) > 0
        /\ SameText(PrevCall(k), PrevCall(PrevCall(k)))
        /\ PlainCall(PrevCall(k)) /\ PlainCall(PrevCall(PrevCall(k)))
        /\ ~SameText(PrevCall(k), k) /\ PlainCall(k)
        /\ spamLog[PrevCall(PrevCall(k))].t = spamLog[k].t
        /\ recentMessages[<<spamLog[k].phone, spamLog[k].group_id>>].count = 1
        /\ recentMessages[<<spamLog[k].phone, spamLog[k].group_id>>].message
              = Normalized(spamLog[k].message)

\* ------------------------------------------------- claims on the pipeline
StageNames(st) == [k \in 1..Len(st) |-> st[k].stage]

\* The stages of the text path of a message, in the order they ran.
TextStages(h) == SelectSeq(h.stages, LAMBDA e : e.stage # "image")

IsPrefix(a, b) == Len(a) <= Len(b) /\ \A k \in 1..Len(a) : a[k] = b[k]

\* C11: when the heuristic spam detector yields a verdict for a message's text
\* (excessive_links for a text with 4 links), moderateMessage returns that
\* verdict and no external classification call (toxic or topic) is made for
\* that message.
C11_SpamVerdictShortCircuits ==
    \A i \in HandlerSlots :
        LET st == handlers[i].stages
        IN  \A k \in 1..Len(st) :
               /\ (st[k].stage = "spam" /\ UrlLikeCount(handlers[i].text) > 3)
                     => st[k].result = "excessive_links"
               /\ (st[k].stage = "spam" /\ st[k].result # "null")
                     => /\ k = Len(st)
                        /\ handlers[i].verdict = st[k].result
                        /\ \A j \in 1..Len(st) : st[j].stage \notin {"toxic", "topic"}

\* C11 case: a member's four-link text was handled to the end; its verdict is
\* the spam stage's excessive_links.
C11_Witness ==
    \E i \in HandlerSlots :
        /\ handlers[i].pc = "done"
        /\ UrlLikeCount(handlers[i].text) = 4
        /\ handlers[i].verdict = "excessive_links"
        /\ handlers[i].stages # <<>>
        /\ handlers[i].stages[Len(handlers[i].stages)] = [stage |-> "spam", result |-> "excessive_links"]

\* C12: the text path evaluates exactly the stages heuristic-spam,
\* toxic-classify, topic-classify in that order and returns the first non-null
\* verdict; topic-classify runs only when both earlier stages returned nothing
\* and the text is longer than 20; no other stage produces a verdict, and at
\* most one verdict is returned per message.
C12_ThreeStagesInOrder ==
    \A i \in HandlerSlots :
        LET st == TextStages(handlers[i])
        IN  /\ IsPrefix(StageNames(st), <<"spam", "toxic", "topic">>)
            /\ \A k \in 1..Len(st) :
                  /\ st[k].result # "null" => k = Len(st)
                  /\ st[k].stage = "topic"
                        => /\ Len(handlers[i].text) > 20
                           /\ \A j \in 1..(k - 1) : st[j].result = "null"
            /\ Cardinality(EntriesOf(handlers[i].msg)) <= 1

C14_CaptionModerated ==
    \A i \in HandlerSlots :
        LET h == handlers[i]
        IN  ( /\ h.caption # <<>>
              /\ ~h.isGroupAdmin
              /\ h.pc \in {"reply", "done"}
              /\ h.stages # <<>>
              /\ h.stages[1] = [stage |-> "image", result |-> "null"] )
               => /\ \E k \in 1..Len(h.stages) : h.stages[k].stage = "spam"
                  /\ UrlLikeCount(h.caption) > 3 => h.verdict = "excessive_links"

FailedCall(c) ==
    \/ c.extracted = "error"
    \/ c.outcome.kind \in {"transport_error", "no_choices", "no_results", "no_scores",
                           "unparsable", "json_null"}

\* C20: whatever the external call of checkToxicContent, checkSensitiveContent,
\* analyzeImage, analyzeVideo or analyzeGif does (transport error, malformed
\* response, unparsable payload), the operation returns null and never raises.
C20_FailOpen ==
    classified.op # "none"
       => /\ classified.result # "raise"
          /\ FailedCall(classified) => classified.result = "null"

\* C20 case: the frames of a video were extracted and the classification's
\* answer held the JSON null; analyzeVideo returned null.
C20_Witness ==
    /\ classified.op = "analyzeVideo"
    /\ classified.input /\ classified.apiKey
    /\ classified.extracted = "frames"
    /\ classified.outcome.kind = "json_null"
    /\ classified.result = "null"

\* ------------------------------------------- claims on the classification
\* The external call of the recorded operation was made.
CallMade ==
    /\ classified.op # "none"
    /\ classified.apiKey
    /\ classified.op \in {"checkToxicContent", "checkSensitiveContent"}
          => Len(classified.input) >= (IF classified.op = "checkToxicContent" THEN 3 ELSE 10)
    /\ classified.op \in {"analyzeImage", "analyzeVideo", "analyzeGif"} => classified.input
    /\ classified.op \in {"analyzeVideo", "analyzeGif"} => classified.extracted = "frames"

\* C21: checkToxicContent returns toxic_content exactly when the service result
\* is flagged or a category score exceeds 0.75, with severity high when flagged
\* and medium otherwise, and null when not flagged with every score <= 0.75.
C21_ToxicVerdict ==
    (CallMade /\ classified.op = "checkToxicContent" /\ classified.outcome.kind = "result")
       => LET o == classified.outcome
          IN  /\ classified.result = "toxic_content" <=> (o.flagged \/ o.score > 75)
              /\ classified.result = "toxic_content"
                    => classified.severity = IF o.flagged THEN "high" ELSE "medium"
              /\ (~o.flagged /\ o.score <= 75) => classified.result = "null"

\* C21 case: a result not flagged whose highest score is exactly 0.75 gave null.
C21_Witness ==
    /\ CallMade /\ classified.op = "checkToxicContent"
    /\ classified.outcome.kind = "result"
    /\ ~classified.outcome.flagged /\ classified.outcome.score = 75
    /\ classified.result = "null"

ThresholdTenths(op) == IF op = "checkSensitiveContent" THEN 7 ELSE 6

\* C22: a parsed classifier response produces a verdict only when it is flagged
\* and its confidence is strictly greater than the threshold (0.7 for the text
\* topic classification, 0.6 for image, video and GIF); a confidence equal to or
\* below the threshold, or none, produces no verdict.
C22_ConfidenceThreshold ==
    (CallMade /\ classified.op # "checkToxicContent" /\ classified.outcome.kind = "json")
       => LET o == classified.outcome
          IN  /\ classified.result # "null"
                    <=> (o.flagged /\ o.confidence > ThresholdTenths(classified.op))
              /\ classified.result \in {"null", "sensitive_topic", "sensitive_image",
                                        "sensitive_video", "sensitive_gif"}

\* C22 case: a flagged topic response with confidence exactly 0.7 gave no verdict.
C22_Witness ==
    /\ CallMade /\ classified.op = "checkSensitiveContent"
    /\ classified.outcome.kind = "json"
    /\ classified.outcome.flagged /\ classified.outcome.confidence = 7
    /\ classified.result = "null"

\* ------------------------------------------------ claims on the extractor
\* C23: when frame extraction is impossible (the duration probe fails, or both
\* ffmpeg runs fail) extractVideoFrames and extractGifFrames return an empty
\* set of frames and do not raise.
C23_ImpossibleReturnsEmpty ==
    \A s \in ExtractSlots :
        (extractions[s].pc = "done" /\ extractions[s].impossible)
           => extractions[s].result = "frames" /\ extractions[s].frames = {}

\* C24: after extractVideoFrames or extractGifFrames has finished, on any exit
\* path, no temporary file of that invocation (input file or frame file) remains.
C24_NoArtifactRemains ==
    \A s \in ExtractSlots :
        extractions[s].pc = "done"
           => \A f \in tmpdir : f.inv # extractions[s].inv

\* ------------------------------------------- claims on the restore endpoint
SentBy(k) == {i \in 1..Len(resent) : resent[i].request = k}

SentFor(id) == {i \in 1..Len(resent) : resent[i].log = id}

\* C25: restoring the same log entry twice in sequence: the first request
\* succeeds, re-sends the message and sets restored to true; the second fails
\* with 'already restored', sends nothing, and restored remains true.
C25_SecondRestoreRejected ==
    \A k \in 1..Len(restores) :
        LET r == restores[k]
        IN  /\ Succeeded(r)
                => /\ Cardinality(SentBy(k)) = 1
                   /\ getModerationLogById(ledger, r.id).restored
            /\ \A j \in r.after :
                  restores[j].id = r.id
                     => /\ r.pc = "done"
                        /\ r.response = "Message already restored"
                        /\ SentBy(k) = {}
                        /\ getModerationLogById(ledger, r.id).restored
            /\ r.response = "Message already restored"
                  => \E j \in 1..Len(restores) :
                        j # k /\ restores[j].id = r.id /\ Succeeded(restores[j])

\* C25 case: a request restored an entry; the next request for that entry
\* arrived after it had answered and was rejected; the message went out once.
C25_Witness ==
    /\ Len(restores) >= 2
    /\ Succeeded(restores[1])
    /\ restores[2].id = restores[1].id
    /\ restores[2].after = {1}
    /\ restores[2].response = "Message already restored"
    /\ Cardinality(SentFor(restores[1].id)) = 1
    /\ getModerationLogById(ledger, restores[1].id).restored

\* C26: for every interleaving of two or more restore requests for the same
\* entry, restored is set true only by a request that observed the entry as not
\* yet restored at the moment of the write: at most one request succeeds and
\* the restored message is sent to the room at most once.
C26_AtMostOneRestore ==
    /\ \A k \in 1..Len(restores) : Succeeded(restores[k]) => ~restores[k].atWrite
    /\ \A j, k \in 1..Len(restores) :
          (Succeeded(restores[j]) /\ Succeeded(restores[k]) /\ restores[j].id = restores[k].id)
             => j = k
    /\ \A i, j \in 1..Len(resent) : resent[i].log = resent[j].log => i = j

\* --------------------------------------------- claims on the admin response
ContainsIgnoringCase(text, word) ==
    \E i \in 1..Len(text) :
        /\ i + Len(word) - 1 <= Len(text)
        /\ \A k \in 1..Len(word) : toLowerChar(text[i + k - 1]) = word[k]

\* C27: handleAdminResponse classifies free text case-insensitively by
\* substring containment with priority ignore, then ban, then mute, and
\* otherwise answers unknown with a usage hint.
C27_ClassByPriority ==
    admin.result # "none"
       => /\ admin.class =
                IF ContainsIgnoringCase(admin.response, IgnoreWord) THEN "ignore"
                ELSE IF ContainsIgnoringCase(admin.response, BanWord) THEN "ban"
                ELSE IF ContainsIgnoringCase(admin.response, MuteWord) THEN "mute"
                ELSE "unknown"
          /\ admin.class = "unknown"
                => admin.message = "Unknown action. Use: ignore, ban, or mute"

\* C27 case: a reply holding BAn before ignore was classified as ignore.
C27_Witness ==
    /\ admin.result # "none"
    /\ admin.response = <<"B", "A", "n", " ", "i", "g", "n", "o", "r", "e">>
    /\ admin.class = "ignore"

\* C28: handleAdminResponse invokes the participant removal exactly once,
\* against the given room and user, when the response is classified as ban,
\* and never for ignore, mute or unknown; it never mutates the ledger, and a
\* failing removal is returned as an error message, not raised.
C28_RemovalOnlyForBan ==
    /\ [](admin.result # "none"
            => /\ admin.result = "returned"
               /\ admin.class = "ban"
                     => /\ Len(admin.removals) = 1
                        /\ admin.removals[1].group_id = admin.group_id
                        /\ admin.removals[1].action = "remove"
                        /\ admin.removals[1].participants =
                              << [phone |-> admin.user.phone, domain |-> "s.whatsapp.net"] >>
               /\ admin.class # "ban" => admin.removals = <<>>
               /\ (admin.class = "ban" /\ ~admin.removeOk)
                     => admin.message = "Error banning user")
    /\ [][admin' # admin => ledger' = ledger]_vars

\* C28 case: with a row in the ledger, a ban of a bare phone number whose
\* removal call failed came back as the error message.
C28_Witness ==
    /\ admin.result = "returned"
    /\ admin.class = "ban"
    /\ ~admin.removeOk
    /\ admin.user.domain = ""
    /\ Len(admin.removals) = 1
    /\ admin.message = "Error banning user"
    /\ ledger # <<>>

\* ------------------------------------------------ claims on failing messages
\* C29: an exception from a step of the handling of one inbound message does
\* not end the process and does not prevent the remaining messages of the same
\* batch, or later join, message and timer events, from being processed: the
\* failing step ends that message only, the rest of the batch stays queued and
\* the timer, the join handlers and the stored rows are as they were.
C29_FailureContained ==
    [][failedMsgs' # failedMsgs
         => /\ queue' = queue
            /\ \A i \in HandlerSlots :
                  handlers'[i] # handlers[i]
                     => /\ handlers'[i].pc = "done"
                        /\ handlers'[i].msg \in failedMsgs'
            /\ UNCHANGED << verifyVars, nextMsg, ledger >>]_vars

\* C29 case: the first message of a batch failed; the second was handled to
\* its end, its violation logged.
C29_Witness ==
    \E i \in HandlerSlots :
        /\ failedMsgs = {1}
        /\ handlers[i].msg = 2
        /\ handlers[i].pc = "done"
        /\ queue[i] = <<>>
        /\ EntriesOf(2) # {}

\* C30: every pending row that the cleanup step of a sweep deletes was in the
\* expired set that sweep read at its start and had a removal attempt made for
\* it; a row whose expiry passes while the sweep is suspended is not deleted
\* without a removal attempt.
C30_CleanupWithinSnapshot ==
    [][\A id \in cleaned' \ cleaned :
          /\ kickAttempts'[id] >= 1
          /\ \E s \in 1..MaxSweeps :
                /\ sweeps[s].pc = "loop" /\ sweeps'[s].pc = "idle"
                /\ id \in SnapshotIds(s)]_vars

\* C35: with several frame extractions in flight, or frame files of an earlier
\* failed extraction left behind, each extractVideoFrames or extractGifFrames
\* call returns at most numFrames frames, all of them extracted from its own
\* input, and neither reads nor deletes a frame file of another invocation.
C35_OwnFramesOnly ==
    \A s \in ExtractSlots :
        (extractions[s].pc = "done" /\ extractions[s].result = "frames")
           => /\ Cardinality(extractions[s].frames) <= NumFrames
              /\ \A f \in extractions[s].frames : f.inv = extractions[s].inv

FailureResponses == {"Message not found", "Bot not connected", "error"}

\* A request has just answered with a failure.
JustFailed(k) ==
    /\ k <= Len(restores')
    /\ restores'[k].pc = "done"
    /\ restores'[k].response \in FailureResponses
    /\ k > Len(restores) \/ restores[k].pc # "done"

\* C40: a restore request that fails before completion (entry not found, bot
\* not connected, or the re-send fails) reports failure and leaves the entry's
\* restored flag as it was, so a later request can restore the entry.
C40_FailedRestoreLeavesEntry ==
    [][\A k \in 1..MaxRestores :
          JustFailed(k)
             => /\ ledger' = ledger
                /\ resent' = resent
                /\ ~Succeeded(restores'[k])]_vars

\* C40 case: the re-send of the first request failed and left the entry not
\* restored; a later request for the entry restored it.
C40_Witness ==
    /\ Len(restores) >= 2
    /\ restores[1].pc = "done" /\ restores[1].response = "error"
    /\ restores[2].id = restores[1].id
    /\ restores[2].after = {}
    /\ Succeeded(restores[2])
    /\ ~restores[2].atWrite
    /\ Cardinality(SentFor(restores[1].id)) = 1

\* The rows of the sweeps' expired sets with the given id.
SnapshotRows(id) ==
    UNION { {sweeps[s].expired[i] : i \in {k \in 1..Len(sweeps[s].expired) :
                                              sweeps[s].expired[k].id = id}} :
            s \in 1..MaxSweeps }

\* C36: no (phone, room) has both a verified row and a pending row, and the
\* sweep never attempts to remove a participant who is verified for the room,
\* a second join suspended on challenge generation while the participant
\* answers an earlier challenge included.
C36_VerifiedNotPending ==
    /\ [](\A r \in pending : ~isUserVerified(verified, r.phone, r.group_id))
    /\ [][\A id \in 1..MaxIds :
             kickAttempts'[id] > kickAttempts[id]
                => \A v \in SnapshotRows(id) :
                      ~isUserVerified(verified, v.phone, v.group_id)]_vars

\* C32: reads and mutations on one key of the repeat cache, the pending store
\* and the ledger are serialised under concurrent in-flight events: no event
\* acts on a value of a key that another event has since changed. For the
\* pending store: the sweep sends a timeout notice and attempts a removal only
\* for a row that is still stored as the sweep read it.
C32_NoStaleAction ==
    [][\A id \in 1..MaxIds :
          (kickAttempts'[id] > kickAttempts[id] \/ notices'[id] > notices[id])
             => \A v \in SnapshotRows(id) : v \in pending]_vars

\* C38: startVerification stores the pending row before the delivery of the
\* challenge starts, and a failed delivery leaves that row stored with the
\* expiry it was given (creation time plus the timeout); afterwards the row
\* leaves the store only by the sweep's cleanup or by a later join replacing it.
C38_FailedDeliveryKeepsRow ==
    [][\A id \in 1..MaxIds :
          /\ (challenges[id] = "none" /\ challenges'[id] = "failed")
                => \E r \in pending' : /\ r.id = id
                                       /\ r.created_at = now
                                       /\ r.expires_at = now + TimeoutMinutes
          /\ \A r \in pending :
                (r.id = id /\ challenges[id] = "failed" /\ r \notin pending')
                   => \/ id \in cleaned'
                      \/ \E q \in pending' : /\ q.phone = r.phone
                                              /\ q.group_id = r.group_id
                                              /\ q.id > id]_vars

C38_Witness ==
    \E id \in 1..MaxIds : challenges[id] = "failed" /\ kickAttempts[id] > 0

ExpiredOf(s) == {sweepLog[s].expired[i] : i \in 1..Len(sweepLog[s].expired)}

\* C31: in a finished sweep a removal was attempted for every row of the
\* expired set, whatever failed for that row or for another one; no row of the
\* expired set is stored any more; the returned list holds exactly the
\* (phone, room) keys whose removal call succeeded.
C31_SweepFaultsContained ==
    \A s \in 1..MaxSweeps :
        sweepLog[s].finished
           => /\ sweepLog[s].attempts = IdsOf(ExpiredOf(s))
              /\ sweepLog[s].left = {}
              /\ sweepLog[s].returned =
                    {<<v.phone, v.group_id>> :
                        v \in {w \in ExpiredOf(s) : <<w.id, "remove">> \notin sweepLog[s].faults}}

C31_Witness ==
    \E s \in 1..MaxSweeps :
        /\ sweepLog[s].finished
        /\ \E v, w \in ExpiredOf(s) :
              /\ v.id # w.id
              /\ {<<v.id, "meta">>, <<v.id, "notice">>, <<v.id, "remove">>} \subseteq sweepLog[s].faults
              /\ \A c \in {"meta", "notice", "remove"} : <<w.id, c>> \notin sweepLog[s].faults
              /\ sweepLog[s].returned = {<<w.phone, w.group_id>>}

MediaKinds == {"sensitive_image", "sensitive_video", "sensitive_gif"}

Live(log) == {k \in 1..Len(log) : log[k] # NoLog}

\* C33: the restored flag of an entry never goes back to false; apart from the
\* bulk clear, a step changes at most one existing entry, and only by setting
\* its admin_response or its restored flag; the only deletion is the bulk clear,
\* which leaves no entry.
C33_LedgerMutations ==
    [][/\ Len(ledger') >= Len(ledger)
       /\ \A k \in Live(ledger) :
             \/ /\ ledger'[k] # NoLog
                /\ ledger[k].restored => ledger'[k].restored
                /\ \/ ledger'[k] = ledger[k]
                   \/ ledger'[k] = [ledger[k] EXCEPT !.restored = TRUE]
                   \/ \E r \in Responses : ledger'[k] = [ledger[k] EXCEPT !.admin_response = r]
                /\ \A j \in Live(ledger) \ {k} :
                      ledger'[k] # ledger[k] => ledger'[j] = ledger[j]
             \/ Live(ledger') = {}]_vars

C33_Witness ==
    \E k, j \in 1..Len(ledger) :
        /\ ledger[k] = NoLog
        /\ ledger[j] # NoLog
        /\ ledger[j].restored
        /\ ledger[j].admin_response = "ban"

\* The rooms whose name is one of the configured names, letter case aside.
MonitoredRooms == {"g1", "g2"}

\* Events the claim says are ignored: an event of a room outside the monitored
\* set, a join of the bot's own number, a message sent by the bot.
Ignored(e) ==
    \/ e.group_id \notin MonitoredRooms
    \/ e.kind = "join" /\ e.phone = botNumber
    \/ e.kind = "message" /\ e.fromMe

\* C37: a join or message event of a room outside the monitored set, a join of
\* the bot's own number and a message sent by the bot change nothing: no
\* pending row, no handler run and saved message, no repeat cache or ledger
\* change, no transport call.
C37_IgnoredEventsChangeNothing ==
    [][(lastEvent' # lastEvent /\ Ignored(lastEvent'))
          => UNCHANGED << verifyVars, handlerVars, clock, recentMessages, spamLog,
                          classified, serviceVars, challenges, sweepLog >>]_vars

C37_Witness ==
    /\ lastEvent.kind = "message"
    /\ lastEvent.fromMe
    /\ lastEvent.group_id = "g1"
    /\ lastEvent.type = "notify"
    /\ pending # {}
    /\ Len(ledger) > 0

\* The last call continues a streak past the threshold: the key's count has
\* reached 3, the text normalizes to the entry's text and the previous
\* identical message is at most 60 s old.
ContinuesStreak ==
    /\ EntryBefore # NoEntry
    /\ EntryBefore.count >= repeatThreshold
    /\ Normalized(LastCall.message) = EntryBefore.message
    /\ clock - EntryBefore.lastTime <= repeatWindow

ReachesRepeatCheck(message) == earlyChecks(message).type = "continue"

C39_Body(plainOnly) ==
    /\ SpamCallStep =>
          ((ContinuesStreak /\ (plainOnly => ReachesRepeatCheck(LastCall.message)))
              => /\ LastCall.result.type = "repeated_message"
                 /\ EntryAfter # NoEntry
                 /\ EntryAfter.count = EntryBefore.count + 1)
    /\ \A k \in DOMAIN recentMessages :
          (/\ recentMessages[k] # NoEntry
           /\ recentMessages[k].count >= repeatThreshold
           /\ \/ recentMessages'[k] = NoEntry
              \/ recentMessages'[k].count < recentMessages[k].count)
             => /\ SpamCallStep
                /\ ReachesRepeatCheck(LastCall.message)
                /\ \/ clock - recentMessages[k].lastTime > repeatWindow
                   \/ /\ k = <<LastCall.phone, LastCall.group_id>>
                      /\ Normalized(LastCall.message) # recentMessages[k].message

====
